---- MODULE Spec2Model ----
(***************************************************************************)
(* SCORM package builder (src-tauri/src/scorm): the package assembler of   *)
(* package.rs, the enhanced generator of generator_enhanced.rs, the output *)
(* validator of output_validator.rs, the manifest generator of manifest.rs *)
(* and the navigation script generator of navigation_generator.rs.         *)
(*                                                                         *)
(* Text is modelled as a sequence of one-character strings, so that        *)
(* searching, splitting and escaping are computed and not assumed.         *)
(***************************************************************************)
EXTENDS Integers, Sequences, FiniteSets, TLC

VARIABLES
    call,       \* the function being executed
    pc,         \* its position
    platform,   \* target of the build: std::path semantics differ
    req,        \* the arguments of the call
    zip,        \* entries written to the ZipWriter so far
    disk,       \* the file at output_path (package.rs only)
    ret,        \* what the call returned
    report,     \* ValidationReport under construction
    out,        \* text produced by a generator, or the locals of a loop
    events,     \* progress events emitted to the front end
    buffer,     \* the ZipWriter over zip_buffer (generator_enhanced.rs only)
    listener    \* what became of the last progress event (followed in SpecEmit only)

vars == <<call, pc, platform, req, zip, disk, ret, report, out, events, buffer, listener>>

(***************************************************************************)
(* Bounds of the model.                                                    *)
(***************************************************************************)
MaxResources == 2
MaxStreamable == 1

(***************************************************************************)
(* Text helpers.                                                           *)
(***************************************************************************)
\* all sequences over S of length at most n
SeqsUpTo(S, n) == UNION {[1..k -> S] : k \in 0..n}

\* str::starts_with
StartsWith(s, p) ==
    /\ Len(p) <= Len(s)
    /\ SubSeq(s, 1, Len(p)) = p

\* str::find: the index (from 1) of the first occurrence of sub in s, 0 if none
Find(s, sub) ==
    LET hits == {i \in 1..(Len(s) - Len(sub) + 1) : SubSeq(s, i, i + Len(sub) - 1) = sub}
    IN  IF hits = {} THEN 0 ELSE CHOOSE i \in hits : \A j \in hits : i <= j

\* str::contains
Contains(s, sub) == Find(s, sub) # 0

RECURSIVE Concat(_)
Concat(ss) == IF ss = <<>> THEN <<>> ELSE Head(ss) \o Concat(Tail(ss))

(***************************************************************************)
(* std::path::Path as package.rs uses it.                                  *)
(***************************************************************************)
Platforms == {"unix", "windows"}

\* the raw segments of p between separators
RECURSIVE SplitOn(_, _, _)
SplitOn(p, sep, acc) ==
    IF p = <<>> THEN <<acc>>
    ELSE IF Head(p) = sep THEN <<acc>> \o SplitOn(Tail(p), sep, <<>>)
    ELSE SplitOn(Tail(p), sep, Append(acc, Head(p)))

\* Windows drive prefix ("C:")
HasPrefix(plat, p) == plat = "windows" /\ Len(p) >= 2 /\ p[2] = ":"

AfterPrefix(plat, p) == IF HasPrefix(plat, p) THEN SubSeq(p, 3, Len(p)) ELSE p

HasRoot(plat, p) == LET r == AfterPrefix(plat, p) IN Len(r) >= 1 /\ r[1] = "/"

\* Path::is_absolute: on Unix has_root, on Windows prefix and root
IsAbsolute(plat, p) ==
    IF plat = "windows" THEN HasPrefix(plat, p) /\ HasRoot(plat, p)
    ELSE HasRoot(plat, p)

\* Path::components, as the kinds of the components: empty segments vanish
ComponentKind(seg) ==
    IF seg = <<".", ".">> THEN "ParentDir"
    ELSE IF seg = <<".">> THEN "CurDir"
    ELSE "Normal"

Components(plat, p) ==
    LET segs == SplitOn(AfterPrefix(plat, p), "/", <<>>)
        keep == SelectSeq(segs, LAMBDA s : s # <<>>)
    IN  [i \in 1..Len(keep) |-> ComponentKind(keep[i])]

HasParentDir(plat, p) ==
    \E i \in 1..Len(Components(plat, p)) : Components(plat, p)[i] = "ParentDir"

\* package.rs:54-58, the ZipSlip test of create_scorm_package
DangerousPath(plat, p) == IsAbsolute(plat, p) \/ HasParentDir(plat, p)

(***************************************************************************)
(* Archive entry names.                                                    *)
(***************************************************************************)
ManifestName == <<"i","m","s","m","a","n","i","f","e","s","t",".","x","m","l">>
IndexName == <<"i","n","d","e","x",".","h","t","m","l">>

\* resource paths a caller may pass
ResourcePaths ==
    { <<"a">>,
      <<"a","/","b">>,
      <<"/","a">>,
      <<".",".","/","a">>,
      <<"a","/",".",".","/","b">>,
      <<"a",".",".","b">>,
      <<"C",":","/","a">> }

NoRet == [kind |-> "none", msg |-> "none"]
Ok == [kind |-> "ok", msg |-> "none"]
Err(m) == [kind |-> "err", msg |-> m]

NoReport == [success |-> <<>>, errors |-> <<>>]
NoDisk == [state |-> "absent", entries |-> <<>>]

\* package.rs:32-34
PackageOptions == [method |-> "Deflated", perm |-> "0o755"]

Entry(path, kind, options) ==
    [path |-> path, kind |-> kind, method |-> options.method, perm |-> options.perm]

(***************************************************************************)
(* package.rs: create_scorm_package and create_scorm_package_streaming.    *)
(* req.resources and req.streamable are the resources the loops have       *)
(* taken so far; the caller's next resource is drawn when the loop         *)
(* reaches it.                                                             *)
(***************************************************************************)
PkgInit ==
    /\ call \in {"create_scorm_package", "create_scorm_package_streaming"}
    /\ pc = "create"
    /\ platform \in Platforms
    /\ req \in [manifestEmpty : BOOLEAN, htmlEmpty : BOOLEAN,
                resources : {<<>>}, streamable : {<<>>}]
    /\ zip = <<>>
    /\ disk = NoDisk
    /\ ret = NoRet
    /\ report = NoReport
    /\ out = <<>>
    /\ events = <<>>
    /\ buffer = "none"
    /\ listener = "unobserved"

\* the ZipWriter is dropped on an early return: the file stays where it was created
Fail(msg) ==
    /\ ret' = Err(msg)
    /\ pc' = "done"
    /\ disk' = [state |-> IF disk.state = "absent" THEN "absent" ELSE "dropped",
                entries |-> zip]

\* zip.start_file + zip.write_all of one entry
WriteEntry(path, kind) ==
    /\ zip' = Append(zip, Entry(path, kind, PackageOptions))
    /\ disk' = [disk EXCEPT !.entries = zip']

PkgCreateFile ==
    /\ call \in {"create_scorm_package", "create_scorm_package_streaming"}
    /\ pc = "create"
    /\ \/ /\ disk' = [state |-> "open", entries |-> <<>>]
          /\ pc' = "manifest"
          /\ ret' = ret
       \/ Fail("Failed to create output file")
    /\ UNCHANGED <<call, platform, req, zip, report, out, events, buffer, listener>>

PkgWriteManifest ==
    /\ call \in {"create_scorm_package", "create_scorm_package_streaming"}
    /\ pc = "manifest"
    /\ \/ /\ call = "create_scorm_package_streaming" => ~req.manifestEmpty
          /\ WriteEntry(ManifestName, "manifest")
          /\ pc' = "index"
          /\ ret' = ret
       \/ /\ call = "create_scorm_package_streaming" /\ req.manifestEmpty
          /\ pc' = "index"
          /\ UNCHANGED <<zip, disk, ret>>
       \/ /\ call = "create_scorm_package_streaming" => ~req.manifestEmpty
          /\ Fail("Failed to write manifest content")
          /\ zip' = zip
    /\ UNCHANGED <<call, platform, req, report, out, events, buffer, listener>>

PkgWriteIndex ==
    /\ call \in {"create_scorm_package", "create_scorm_package_streaming"}
    /\ pc = "index"
    /\ \/ /\ call = "create_scorm_package_streaming" => ~req.htmlEmpty
          /\ WriteEntry(IndexName, "index")
          /\ pc' = "resources"
          /\ ret' = ret
       \/ /\ call = "create_scorm_package_streaming" /\ req.htmlEmpty
          /\ pc' = "resources"
          /\ UNCHANGED <<zip, disk, ret>>
       \/ /\ call = "create_scorm_package_streaming" => ~req.htmlEmpty
          /\ Fail("Failed to write HTML content")
          /\ zip' = zip
    /\ UNCHANGED <<call, platform, req, report, out, events, buffer, listener>>

\* package.rs:49-74, one turn of the resource loop
PkgWriteResource ==
    /\ call = "create_scorm_package"
    /\ pc = "resources"
    /\ Len(req.resources) < MaxResources
    /\ \E p \in ResourcePaths :
        /\ req' = [req EXCEPT !.resources = Append(@, p)]
        /\ IF DangerousPath(platform, p)
           THEN /\ Fail("Invalid resource path")
                /\ zip' = zip
           ELSE \/ /\ WriteEntry(p, "resource")
                   /\ UNCHANGED <<pc, ret>>
                \/ /\ Fail("Failed to write resource")
                   /\ zip' = zip
    /\ UNCHANGED <<call, platform, report, out, events, buffer, listener>>

\* package.rs:116-121, one turn of the in-memory resource loop
PkgStreamingWriteResource ==
    /\ call = "create_scorm_package_streaming"
    /\ pc = "resources"
    /\ Len(req.resources) < MaxResources
    /\ \E p \in ResourcePaths :
        /\ req' = [req EXCEPT !.resources = Append(@, p)]
        /\ \/ /\ WriteEntry(p, "resource")
              /\ UNCHANGED <<pc, ret>>
           \/ /\ Fail("Failed to write resource")
              /\ zip' = zip
    /\ UNCHANGED <<call, platform, report, out, events, buffer, listener>>

\* the in-memory resources are exhausted
PkgResourcesDone ==
    /\ call \in {"create_scorm_package", "create_scorm_package_streaming"}
    /\ pc = "resources"
    /\ pc' = IF call = "create_scorm_package" THEN "finish" ELSE "streamable"
    /\ UNCHANGED <<call, platform, req, zip, disk, ret, report, out, events, buffer, listener>>

\* generator.rs stream_file_to_zip: validates zip_path, then copies the file in chunks
StreamFileToZip(p) ==
    IF DangerousPath(platform, p)
    THEN /\ Fail("Invalid resource path")
         /\ zip' = zip
    ELSE \/ /\ WriteEntry(p, "stream")
            /\ UNCHANGED <<pc, ret>>
         \/ /\ Fail("Failed to stream file")
            /\ zip' = zip

\* package.rs:124-126, one turn of the streamed resource loop
PkgStreamResource ==
    /\ call = "create_scorm_package_streaming"
    /\ pc = "streamable"
    /\ Len(req.streamable) < MaxStreamable
    /\ \E p \in ResourcePaths :
        /\ req' = [req EXCEPT !.streamable = Append(@, p)]
        /\ StreamFileToZip(p)
    /\ UNCHANGED <<call, platform, report, out, events, buffer, listener>>

PkgStreamableDone ==
    /\ call = "create_scorm_package_streaming"
    /\ pc = "streamable"
    /\ pc' = "finish"
    /\ UNCHANGED <<call, platform, req, zip, disk, ret, report, out, events, buffer, listener>>

\* zip.finish()
PkgFinish ==
    /\ call \in {"create_scorm_package", "create_scorm_package_streaming"}
    /\ pc = "finish"
    /\ \/ /\ disk' = [state |-> "finished", entries |-> zip]
          /\ ret' = Ok
          /\ pc' = "done"
       \/ Fail("Failed to finish ZIP file")
    /\ UNCHANGED <<call, platform, req, zip, report, out, events, buffer, listener>>

PkgNext ==
    \/ PkgCreateFile
    \/ PkgWriteManifest
    \/ PkgWriteIndex
    \/ PkgWriteResource
    \/ PkgStreamingWriteResource
    \/ PkgResourcesDone
    \/ PkgStreamResource
    \/ PkgStreamableDone
    \/ PkgFinish

SpecPkg == PkgInit /\ [][PkgNext]_vars

(***************************************************************************)
(* XML text.  User text is a sequence of characters; a literal of the      *)
(* source that holds no XML special character is one chunk.  XmlChars has  *)
(* no ">" and no ";": a "<" or "&" of user text that reaches the document  *)
(* unescaped can then neither close a tag nor complete an entity, so it    *)
(* always breaks well-formedness.                                          *)
(***************************************************************************)
MaxTextLen == 2
MaxTopics == 2
MaxQuestions == 2

XmlChars == {"a", "<", "&", "\""}

UserTexts == SeqsUpTo(XmlChars, MaxTextLen)

\* quick_xml::escape::escape
EscapeChar(c) ==
    CASE c = "<" -> <<"&", "l", "t", ";">>
      [] c = ">" -> <<"&", "g", "t", ";">>
      [] c = "&" -> <<"&", "a", "m", "p", ";">>
      [] c = "'" -> <<"&", "a", "p", "o", "s", ";">>
      [] c = "\"" -> <<"&", "q", "u", "o", "t", ";">>
      [] OTHER -> <<c>>

RECURSIVE Escape(_)
Escape(s) == IF s = <<>> THEN <<>> ELSE EscapeChar(Head(s)) \o Escape(Tail(s))

\* the events quick_xml::Writer is given; text and attribute values are the
\* characters that reach the document
Decl == [ev |-> "Decl", name |-> "xml", attrs |-> <<>>, text |-> <<>>]
Start(name, attrs) == [ev |-> "Start", name |-> name, attrs |-> attrs, text |-> <<>>]
EmptyElem(name, attrs) == [ev |-> "Empty", name |-> name, attrs |-> attrs, text |-> <<>>]
End(name) == [ev |-> "End", name |-> name, attrs |-> <<>>, text |-> <<>>]

\* BytesText::new escapes its argument
TextNew(s) == [ev |-> "Text", name |-> "", attrs |-> <<>>, text |-> Escape(s)]

\* BytesText::from_escaped takes its argument as already escaped
TextFromEscaped(s) == [ev |-> "Text", name |-> "", attrs |-> <<>>, text |-> s]

\* BytesStart::push_attribute((&str, &str)): the value is escaped
PushAttribute(key, value) == [key |-> key, value |-> Escape(value)]

\* an attribute written into a format! template as it is
RawAttribute(key, value) == [key |-> key, value |-> value]

(***************************************************************************)
(* manifest.rs: generate_manifest.                                         *)
(***************************************************************************)
ScormVersions == {"1.2", "2004", "2004.3", "2004.4", "", "1.3", "2004.2", "2004.5", "invalid"}

\* a check that lets every 2004 edition through
ValidScormVersion_AnyEdition(v) == v \in {"1.2", "2004", "2004.2", "2004.3", "2004.4", "2004.5"}

\* manifest.rs:22-25
ValidScormVersion(v) == v \in {"1.2", "2004", "2004.3", "2004.4"}

\* manifest.rs:48-53
LegacyNamespaces ==
    << PushAttribute("xmlns", <<"http://www.imsproject.org/xsd/imscp_rootv1p1p2">>),
       PushAttribute("xmlns:adlcp", <<"http://www.adlnet.org/xsd/adlcp_rootv1p2">>) >>

\* manifest.rs:54-60
Scorm2004Namespaces ==
    << PushAttribute("xmlns", <<"http://www.imsglobal.org/xsd/imscp_v1p1">>),
       PushAttribute("xmlns:adlcp", <<"http://www.adlnet.org/xsd/adlcp_v1p3">>),
       PushAttribute("xmlns:adlseq", <<"http://www.adlnet.org/xsd/adlseq_v1p3">>),
       PushAttribute("xmlns:adlnav", <<"http://www.adlnet.org/xsd/adlnav_v1p3">>),
       PushAttribute("xmlns:imsss", <<"http://www.imsglobal.org/xsd/imsss">>) >>

\* a match that names "2004" alone and lets the dotted editions fall to the legacy arm
NamespaceAttributes_Only2004(v) ==
    IF v = "2004" THEN Scorm2004Namespaces ELSE LegacyNamespaces

\* manifest.rs:47-61
NamespaceAttributes(v) ==
    IF v = "1.2" THEN LegacyNamespaces ELSE Scorm2004Namespaces

\* manifest.rs:85-91
SchemaVersionText(v) ==
    CASE v = "1.2" -> <<"1.2">>
      [] v = "2004" -> <<"2004 3rd Edition">>
      [] v = "2004.3" -> <<"2004 3rd Edition">>
      [] v = "2004.4" -> <<"2004 4th Edition">>
      [] OTHER -> <<"2004 3rd Edition">>

\* manifest.rs:35-44: the values are escaped by hand and again by push_attribute
ManifestElement(course, v) ==
    Start("manifest",
          << PushAttribute("identifier", Escape(course.identifier)),
             PushAttribute("version", Escape(course.version)) >>
          \o NamespaceAttributes(v))

\* manifest.rs:27-191
ManifestEvents(course, v) ==
    << Decl,
       ManifestElement(course, v),
       Start("metadata", <<>>),
       Start("schema", <<>>), TextNew(<<"ADL SCORM">>), End("schema"),
       Start("schemaversion", <<>>), TextNew(SchemaVersionText(v)), End("schemaversion"),
       End("metadata"),
       Start("organizations",
             <<PushAttribute("default", course.identifier \o <<"_org">>)>>),
       Start("organization",
             <<PushAttribute("identifier", course.identifier \o <<"_org">>)>>),
       Start("title", <<>>), TextFromEscaped(course.title), End("title"),
       Start("item", << PushAttribute("identifier", <<"item_1">>),
                        PushAttribute("identifierref", <<"resource_1">>) >>),
       Start("title", <<>>), TextFromEscaped(course.title), End("title"),
       End("item"),
       End("organization"),
       End("organizations"),
       Start("resources", <<>>),
       Start("resource",
             << PushAttribute("identifier", <<"resource_1">>),
                PushAttribute("type", <<"webcontent">>),
                PushAttribute("href", <<"index.html">>),
                PushAttribute(IF v = "1.2" THEN "adlcp:scormtype" ELSE "adlcp:scormType",
                              <<"sco">>) >>),
       EmptyElem("file", <<PushAttribute("href", <<"index.html">>)>>),
       End("resource"),
       End("resources"),
       End("manifest") >>

(***************************************************************************)
(* generator_enhanced.rs: generate_simple_manifest, a format! template.    *)
(***************************************************************************)
TopicIds ==
    { <<"t","o","p","i","c","-","1">>,
      <<"t","o","p","i","c","-","2">>,
      <<"i","n","t","r","o">>,
      <<".",".","/","x">> }

Uuids == {"uuid-1", "uuid-2"}

\* format!("pages/{}.html", id)
PagePath(id) == <<"p","a","g","e","s","/">> \o id \o <<".","h","t","m","l">>

PageFile(stem) == EmptyElem("file", <<RawAttribute("href", PagePath(stem))>>)

\* generator_enhanced.rs:250-276
ResourceFiles(request) ==
    << EmptyElem("file", <<RawAttribute("href", <<"index.html">>)>>),
       EmptyElem("file", <<RawAttribute("href", <<"styles/main.css">>)>>),
       EmptyElem("file", <<RawAttribute("href", <<"scripts/navigation.js">>)>>) >>
    \o (IF request.welcome_page THEN <<PageFile(<<"w","e","l","c","o","m","e">>)>> ELSE <<>>)
    \o (IF request.learning_objectives_page THEN <<PageFile(<<"o","b","j","e","c","t","i","v","e","s">>)>> ELSE <<>>)
    \o [i \in 1..Len(request.topics) |-> PageFile(request.topics[i].id)]
    \o (IF request.assessment THEN <<PageFile(<<"a","s","s","e","s","s","m","e","n","t">>)>> ELSE <<>>)

\* a manifest whose organization is named after the identifier drawn for the run
SimpleManifestEvents_StampedOrganization(request, uuid) ==
    << Decl,
       Start("manifest",
             << RawAttribute("identifier", <<"course-", uuid>>),
                RawAttribute("version", <<"1.0">>),
                RawAttribute("xmlns", <<"http://www.imsproject.org/xsd/imscp_rootv1p1p2">>),
                RawAttribute("xmlns:adlcp", <<"http://www.adlnet.org/xsd/adlcp_rootv1p2">>),
                RawAttribute("xmlns:xsi", <<"http://www.w3.org/2001/XMLSchema-instance">>),
                RawAttribute("xsi:schemaLocation",
                             <<"http://www.imsproject.org/xsd/imscp_rootv1p1p2 imscp_rootv1p1p2.xsd ",
                               "http://www.adlnet.org/xsd/adlcp_rootv1p2 adlcp_rootv1p2.xsd">>) >>),
       Start("metadata", <<>>),
       Start("schema", <<>>), TextFromEscaped(<<"ADL SCORM">>), End("schema"),
       Start("schemaversion", <<>>), TextFromEscaped(<<"1.2">>), End("schemaversion"),
       End("metadata"),
       Start("organizations", <<RawAttribute("default", <<"default_org">>)>>),
       Start("organization", <<RawAttribute("identifier", <<"org-", uuid>>)>>),
       Start("title", <<>>), TextFromEscaped(request.course_title), End("title"),
       Start("item", << RawAttribute("identifier", <<"item_1">>),
                        RawAttribute("identifierref", <<"main">>) >>),
       Start("title", <<>>), TextFromEscaped(request.course_title), End("title"),
       End("item"),
       End("organization"),
       End("organizations"),
       Start("resources", <<>>),
       Start("resource",
             << RawAttribute("identifier", <<"main">>),
                RawAttribute("type", <<"webcontent">>),
                RawAttribute("adlcp:scormType", <<"sco">>),
                RawAttribute("href", <<"index.html">>) >>) >>
    \o ResourceFiles(request)
    \o << End("resource"), End("resources"), End("manifest") >>

\* generator_enhanced.rs:278-306
SimpleManifestEvents(request, uuid) ==
    << Decl,
       Start("manifest",
             << RawAttribute("identifier", <<"course-", uuid>>),
                RawAttribute("version", <<"1.0">>),
                RawAttribute("xmlns", <<"http://www.imsproject.org/xsd/imscp_rootv1p1p2">>),
                RawAttribute("xmlns:adlcp", <<"http://www.adlnet.org/xsd/adlcp_rootv1p2">>),
                RawAttribute("xmlns:xsi", <<"http://www.w3.org/2001/XMLSchema-instance">>),
                RawAttribute("xsi:schemaLocation",
                             <<"http://www.imsproject.org/xsd/imscp_rootv1p1p2 imscp_rootv1p1p2.xsd ",
                               "http://www.adlnet.org/xsd/adlcp_rootv1p2 adlcp_rootv1p2.xsd">>) >>),
       Start("metadata", <<>>),
       Start("schema", <<>>), TextFromEscaped(<<"ADL SCORM">>), End("schema"),
       Start("schemaversion", <<>>), TextFromEscaped(<<"1.2">>), End("schemaversion"),
       End("metadata"),
       Start("organizations", <<RawAttribute("default", <<"default_org">>)>>),
       Start("organization", <<RawAttribute("identifier", <<"default_org">>)>>),
       Start("title", <<>>), TextFromEscaped(request.course_title), End("title"),
       Start("item", << RawAttribute("identifier", <<"item_1">>),
                        RawAttribute("identifierref", <<"main">>) >>),
       Start("title", <<>>), TextFromEscaped(request.course_title), End("title"),
       End("item"),
       End("organization"),
       End("organizations"),
       Start("resources", <<>>),
       Start("resource",
             << RawAttribute("identifier", <<"main">>),
                RawAttribute("type", <<"webcontent">>),
                RawAttribute("adlcp:scormType", <<"sco">>),
                RawAttribute("href", <<"index.html">>) >>) >>
    \o ResourceFiles(request)
    \o << End("resource"), End("resources"), End("manifest") >>

(***************************************************************************)
(* The two manifest generators as calls.                                   *)
(***************************************************************************)
ManifestRequests ==
    [course : [title : UserTexts, identifier : UserTexts, version : {<<"1.0">>}],
     scorm_version : ScormVersions]

\* generator_enhanced.rs:72, pass_mark: u32
PassMarks == {80, 100}

SimpleRequests ==
    [course_title : UserTexts,
     topics : SeqsUpTo([id : TopicIds], MaxTopics),
     welcome_page : BOOLEAN, learning_objectives_page : BOOLEAN, assessment : BOOLEAN,
     pass_mark : PassMarks]

ManInit ==
    /\ \/ call = "generate_manifest" /\ req \in ManifestRequests
       \/ call = "generate_simple_manifest" /\ req \in SimpleRequests
    /\ pc = "start"
    /\ platform = "unix"
    /\ zip = <<>>
    /\ disk = NoDisk
    /\ ret = NoRet
    /\ report = NoReport
    /\ out = <<>>
    /\ events = <<>>
    /\ buffer = "none"
    /\ listener = "unobserved"

\* manifest.rs:22-25
ManValidateVersion ==
    /\ call = "generate_manifest"
    /\ pc = "start"
    /\ IF ValidScormVersion(req.scorm_version)
       THEN pc' = "write" /\ ret' = ret
       ELSE pc' = "done" /\ ret' = Err("Invalid SCORM version")
    /\ UNCHANGED <<call, platform, req, zip, disk, report, out, events, buffer, listener>>

\* manifest.rs:27-191
ManWriteEvents ==
    /\ call = "generate_manifest"
    /\ pc = "write"
    /\ out' = ManifestEvents(req.course, req.scorm_version)
    /\ pc' = "convert"
    /\ UNCHANGED <<call, platform, req, zip, disk, ret, report, events, buffer, listener>>

\* manifest.rs:193-194
ManReturn ==
    /\ call = "generate_manifest"
    /\ pc = "convert"
    /\ ret' = Ok
    /\ pc' = "done"
    /\ UNCHANGED <<call, platform, req, zip, disk, report, out, events, buffer, listener>>

\* generator_enhanced.rs:249-307
SimpleManifest ==
    /\ call = "generate_simple_manifest"
    /\ pc = "start"
    /\ \E u \in Uuids : out' = SimpleManifestEvents(req, u)
    /\ ret' = Ok
    /\ pc' = "done"
    /\ UNCHANGED <<call, platform, req, zip, disk, report, events, buffer, listener>>

ManNext ==
    \/ ManValidateVersion
    \/ ManWriteEvents
    \/ ManReturn
    \/ SimpleManifest

SpecMan == ManInit /\ [][ManNext]_vars

(***************************************************************************)
(* navigation_generator.rs: generate_navigation_js.                        *)
(***************************************************************************)
\* Option<KnowledgeCheck>; the questions are counted, not held
KnowledgeChecks ==
    {[present |-> FALSE, enabled |-> FALSE, questions |-> 0]}
    \cup [present : {TRUE}, enabled : BOOLEAN, questions : 0..MaxQuestions]

NavTopics == [id : TopicIds, knowledge_check : KnowledgeChecks]

NavRequests ==
    [topics : SeqsUpTo(NavTopics, MaxTopics),
     learning_objectives_page : BOOLEAN,
     pass_mark : {80}]

\* a test that looks at the questions and not at the enabled flag
HasKnowledgeCheck_IgnoresEnabled(topic) ==
    topic.knowledge_check.present /\ topic.knowledge_check.questions # 0

\* navigation_generator.rs:32-36
HasKnowledgeCheck(topic) ==
    IF topic.knowledge_check.present
    THEN topic.knowledge_check.enabled /\ topic.knowledge_check.questions # 0
    ELSE FALSE

\* navigation_generator.rs:28-50
NavigationData(request) ==
    [has_objectives |-> request.learning_objectives_page,
     topics |-> [i \in 1..Len(request.topics) |->
                    [id |-> request.topics[i].id,
                     has_knowledge_check |-> HasKnowledgeCheck(request.topics[i])]],
     pass_mark |-> request.pass_mark]

\* templates/navigation.js.hbs: one line "'<id>': <has_knowledge_check>" of
\* PAGES_WITH_KNOWLEDGE_CHECKS for each topic of the data, in order
RenderNavigationTable(data) ==
    [i \in 1..Len(data.topics) |->
        [id |-> data.topics[i].id, value |-> data.topics[i].has_knowledge_check]]

NavInit ==
    /\ call = "generate_navigation_js"
    /\ req \in NavRequests
    /\ pc = "start"
    /\ platform = "unix"
    /\ zip = <<>>
    /\ disk = NoDisk
    /\ ret = NoRet
    /\ report = NoReport
    /\ out = <<>>
    /\ events = <<>>
    /\ buffer = "none"
    /\ listener = "unobserved"

\* navigation_generator.rs:26-55
GenerateNavigationJs ==
    /\ call = "generate_navigation_js"
    /\ pc = "start"
    /\ \/ /\ out' = RenderNavigationTable(NavigationData(req))
          /\ ret' = Ok
       \/ /\ out' = out
          /\ ret' = Err("Failed to render navigation template")
    /\ pc' = "done"
    /\ UNCHANGED <<call, platform, req, zip, disk, report, events, buffer, listener>>

NavNext == GenerateNavigationJs

SpecNav == NavInit /\ [][NavNext]_vars

(***************************************************************************)
(* Generated text.  A script, a style sheet or a page is a sequence of     *)
(* lines; each line is one of the lines below or a comment of PadWidth     *)
(* characters.  What a line contains, and where, is computed from its      *)
(* characters.                                                             *)
(***************************************************************************)
PadWidth == 250
MaxHandlerLen == 4

LineText ==
    "blockDef" :> <<"f","u","n","c","t","i","o","n"," ","s","h","o","u","l","d","B","l","o","c","k","N","a","v","i","g","a","t","i","o","n","(",")"," ","{","\n">> @@
    "navDef" :> <<"f","u","n","c","t","i","o","n"," ","u","p","d","a","t","e","N","a","v","i","g","a","t","i","o","n","S","t","a","t","e","(",")"," ","{","\n">> @@
    "navigateDef" :> <<"f","u","n","c","t","i","o","n"," ","n","a","v","i","g","a","t","e","T","o","P","a","g","e","(","p","a","g","e","I","d",")"," ","{","\n">> @@
    "initDef" :> <<"f","u","n","c","t","i","o","n"," ","i","n","i","t","i","a","l","i","z","e","N","a","v","i","g","a","t","i","o","n","(",")"," ","{","\n">> @@
    "then" :> <<".","t","h","e","n","(","h","t","m","l"," ","=",">"," ","{","\n">> @@
    "inject" :> <<"c","o","n","t","e","n","t","C","o","n","t","a","i","n","e","r",".","i","n","n","e","r","H","T","M","L"," ","="," ","h","t","m","l",";","\n">> @@
    "audio" :> <<"i","n","i","t","i","a","l","i","z","e","P","a","g","e","A","u","d","i","o","(","p","a","g","e","I","d",")",";","\n">> @@
    "navCall" :> <<"u","p","d","a","t","e","N","a","v","i","g","a","t","i","o","n","S","t","a","t","e","(",")",";","\n">> @@
    "close" :> <<"}",")",";","\n">> @@
    "sidebar" :> <<"c","o","n","s","o","l","e",".","l","o","g","(","'","[","S","C","O","R","M"," ","N","a","v","i","g","a","t","i","o","n","]"," ","S","i","d","e","b","a","r"," ","c","l","i","c","k",":","'",","," ","p","a","g","e","I","d",")",";","\n">> @@
    "fib" :> <<"w","i","n","d","o","w",".","c","h","e","c","k","F","i","l","l","I","n","B","l","a","n","k"," ","="," ","f","u","n","c","t","i","o","n","(","i","n","d","e","x",")"," ","{","\n">> @@
    "mc" :> <<"w","i","n","d","o","w",".","c","h","e","c","k","M","u","l","t","i","p","l","e","C","h","o","i","c","e"," ","="," ","f","u","n","c","t","i","o","n","(","i","n","d","e","x",")"," ","{","\n">> @@
    "cssBanned" :> <<".","c","o","n","t","e","n","t"," ","{"," ","m","i","n","-","h","e","i","g","h","t",":"," ","8","0","0","p","x"," ","!","i","m","p","o","r","t","a","n","t",";"," ","}","\n">> @@
    "cssBody" :> <<"b","o","d","y"," ","{"," ","h","e","i","g","h","t",":"," ","1","0","0","v","h",";"," ","}","\n">> @@
    "cssMain" :> <<".","m","a","i","n","-","a","r","e","a"," ","{"," ","d","i","s","p","l","a","y",":"," ","f","l","e","x",";"," ","}","\n">> @@
    "cssFooter" :> <<".","f","o","o","t","e","r"," ","{"," ","f","l","e","x","-","s","h","r","i","n","k",":"," ","0",";"," ","}","\n">> @@
    "cssNavButton" :> <<".","n","a","v","-","b","u","t","t","o","n"," ","{"," ","c","u","r","s","o","r",":"," ","p","o","i","n","t","e","r",";"," ","}","\n">> @@
    "cssNavDisabled" :> <<".","n","a","v","-","b","u","t","t","o","n",":","d","i","s","a","b","l","e","d"," ","{"," ","o","p","a","c","i","t","y",":"," ","0",".","5",";"," ","}","\n">> @@
    "cssDisabled" :> <<"b","u","t","t","o","n",":","d","i","s","a","b","l","e","d"," ","{"," ","o","p","a","c","i","t","y",":"," ","0",".","5",";"," ","}","\n">> @@
    "cssKc" :> <<".","k","n","o","w","l","e","d","g","e","-","c","h","e","c","k","-","c","o","n","t","a","i","n","e","r"," ","{"," ","m","a","r","g","i","n",":"," ","1","e","m",";"," ","}","\n">> @@
    "cssFill" :> <<".","k","c","-","f","i","l","l","-","b","l","a","n","k"," ","{"," ","b","o","r","d","e","r",":"," ","1","p","x"," ","s","o","l","i","d",";"," ","}","\n">> @@
    "htmlPrev" :> <<"<","b","u","t","t","o","n"," ","i","d","=","\"","p","r","e","v","-","b","u","t","t","o","n","\""," ","c","l","a","s","s","=","\"","n","a","v","-","b","u","t","t","o","n","\"",">","\n">> @@
    "htmlNext" :> <<"<","b","u","t","t","o","n"," ","i","d","=","\"","n","e","x","t","-","b","u","t","t","o","n","\""," ","c","l","a","s","s","=","\"","n","a","v","-","b","u","t","t","o","n","\"",">","\n">> @@
    "htmlContent" :> <<"<","d","i","v"," ","i","d","=","\"","c","o","n","t","e","n","t","-","c","o","n","t","a","i","n","e","r","\"",">","\n">> @@
    "htmlAlert" :> <<"<","d","i","v"," ","i","d","=","\"","s","c","o","r","m","-","a","l","e","r","t","-","c","o","n","t","a","i","n","e","r","\"",">","\n">> @@
    "pageText" :> <<"<","p",">","c","o","n","t","e","n","t","<","/","p",">","\n">> @@
    "pageKc" :> <<"<","d","i","v"," ","c","l","a","s","s","=","\"","k","n","o","w","l","e","d","g","e","-","c","h","e","c","k","-","c","o","n","t","a","i","n","e","r","\"",">","\n">> @@
    "pageFillStyled" :> <<"<","i","n","p","u","t"," ","i","d","=","\"","f","i","l","l","-","b","l","a","n","k","-","0","\""," ","c","l","a","s","s","=","\"","k","c","-","f","i","l","l","-","b","l","a","n","k","\"",">","\n">> @@
    "pageFillPlain" :> <<"<","i","n","p","u","t"," ","i","d","=","\"","f","i","l","l","-","b","l","a","n","k","-","0","\"",">","\n">> @@
    "pageSubmitAll" :> <<"<","b","u","t","t","o","n"," ","o","n","c","l","i","c","k","=","\"","w","i","n","d","o","w",".","s","u","b","m","i","t","A","l","l","K","n","o","w","l","e","d","g","e","C","h","e","c","k","s","(",")","\"",">","\n">> @@
    "pageSubmitOne" :> <<"<","b","u","t","t","o","n"," ","o","n","c","l","i","c","k","=","\"","c","h","e","c","k","F","i","l","l","I","n","B","l","a","n","k","(","0",")","\"",">","\n">>

\* the texts output_validator.rs and navigation_generator.rs search for
MarkerText ==
    "M_block" :> <<"s","h","o","u","l","d","B","l","o","c","k","N","a","v","i","g","a","t","i","o","n","(",")">> @@
    "M_nav" :> <<"u","p","d","a","t","e","N","a","v","i","g","a","t","i","o","n","S","t","a","t","e","(",")">> @@
    "M_then" :> <<".","t","h","e","n","(","h","t","m","l"," ","=",">"," ","{">> @@
    "M_audio" :> <<"i","n","i","t","i","a","l","i","z","e","P","a","g","e","A","u","d","i","o","(","p","a","g","e","I","d",")">> @@
    "M_sidebar" :> <<"[","S","C","O","R","M"," ","N","a","v","i","g","a","t","i","o","n","]"," ","S","i","d","e","b","a","r"," ","c","l","i","c","k",":">> @@
    "M_fib" :> <<"w","i","n","d","o","w",".","c","h","e","c","k","F","i","l","l","I","n","B","l","a","n","k">> @@
    "M_mc" :> <<"w","i","n","d","o","w",".","c","h","e","c","k","M","u","l","t","i","p","l","e","C","h","o","i","c","e">> @@
    "M_audioStmt" :> <<"i","n","i","t","i","a","l","i","z","e","P","a","g","e","A","u","d","i","o","(","p","a","g","e","I","d",")",";">> @@
    "M_navStmt" :> <<"u","p","d","a","t","e","N","a","v","i","g","a","t","i","o","n","S","t","a","t","e","(",")",";">> @@
    "M_function_updateNavigationState" :> <<"f","u","n","c","t","i","o","n"," ","u","p","d","a","t","e","N","a","v","i","g","a","t","i","o","n","S","t","a","t","e">> @@
    "M_window_updateNavigationState" :> <<"w","i","n","d","o","w",".","u","p","d","a","t","e","N","a","v","i","g","a","t","i","o","n","S","t","a","t","e"," ","=">> @@
    "M_function_shouldBlockNavigation" :> <<"f","u","n","c","t","i","o","n"," ","s","h","o","u","l","d","B","l","o","c","k","N","a","v","i","g","a","t","i","o","n">> @@
    "M_window_shouldBlockNavigation" :> <<"w","i","n","d","o","w",".","s","h","o","u","l","d","B","l","o","c","k","N","a","v","i","g","a","t","i","o","n"," ","=">> @@
    "M_function_navigateToPage" :> <<"f","u","n","c","t","i","o","n"," ","n","a","v","i","g","a","t","e","T","o","P","a","g","e">> @@
    "M_window_navigateToPage" :> <<"w","i","n","d","o","w",".","n","a","v","i","g","a","t","e","T","o","P","a","g","e"," ","=">> @@
    "M_function_checkMultipleChoice" :> <<"f","u","n","c","t","i","o","n"," ","c","h","e","c","k","M","u","l","t","i","p","l","e","C","h","o","i","c","e">> @@
    "M_window_checkMultipleChoice" :> <<"w","i","n","d","o","w",".","c","h","e","c","k","M","u","l","t","i","p","l","e","C","h","o","i","c","e"," ","=">> @@
    "M_function_checkFillInBlank" :> <<"f","u","n","c","t","i","o","n"," ","c","h","e","c","k","F","i","l","l","I","n","B","l","a","n","k">> @@
    "M_window_checkFillInBlank" :> <<"w","i","n","d","o","w",".","c","h","e","c","k","F","i","l","l","I","n","B","l","a","n","k"," ","=">> @@
    "M_function_initializeNavigation" :> <<"f","u","n","c","t","i","o","n"," ","i","n","i","t","i","a","l","i","z","e","N","a","v","i","g","a","t","i","o","n">> @@
    "M_window_initializeNavigation" :> <<"w","i","n","d","o","w",".","i","n","i","t","i","a","l","i","z","e","N","a","v","i","g","a","t","i","o","n"," ","=">> @@
    "M_cssBanned" :> <<"m","i","n","-","h","e","i","g","h","t",":"," ","8","0","0","p","x"," ","!","i","m","p","o","r","t","a","n","t">> @@
    "M_body" :> <<"b","o","d","y">> @@
    "M_100vh" :> <<"h","e","i","g","h","t",":"," ","1","0","0","v","h">> @@
    "M_footer" :> <<".","f","o","o","t","e","r">> @@
    "M_navDisabled" :> <<".","n","a","v","-","b","u","t","t","o","n",":","d","i","s","a","b","l","e","d">> @@
    "M_mainArea" :> <<".","m","a","i","n","-","a","r","e","a">> @@
    "M_flex" :> <<"d","i","s","p","l","a","y",":"," ","f","l","e","x">> @@
    "M_navButton" :> <<".","n","a","v","-","b","u","t","t","o","n">> @@
    "M_disabled" :> <<":","d","i","s","a","b","l","e","d">> @@
    "M_cssKc" :> <<".","k","n","o","w","l","e","d","g","e","-","c","h","e","c","k","-","c","o","n","t","a","i","n","e","r">> @@
    "M_cssFill" :> <<".","k","c","-","f","i","l","l","-","b","l","a","n","k">> @@
    "M_prev" :> <<"i","d","=","\"","p","r","e","v","-","b","u","t","t","o","n","\"">> @@
    "M_next" :> <<"i","d","=","\"","n","e","x","t","-","b","u","t","t","o","n","\"">> @@
    "M_content" :> <<"i","d","=","\"","c","o","n","t","e","n","t","-","c","o","n","t","a","i","n","e","r","\"">> @@
    "M_alert" :> <<"i","d","=","\"","s","c","o","r","m","-","a","l","e","r","t","-","c","o","n","t","a","i","n","e","r","\"">> @@
    "M_kc" :> <<"k","n","o","w","l","e","d","g","e","-","c","h","e","c","k","-","c","o","n","t","a","i","n","e","r">> @@
    "M_fillId" :> <<"f","i","l","l","-","b","l","a","n","k","-">> @@
    "M_fillClass" :> <<"k","c","-","f","i","l","l","-","b","l","a","n","k">> @@
    "M_submitAll" :> <<"o","n","c","l","i","c","k","=","\"","w","i","n","d","o","w",".","s","u","b","m","i","t","A","l","l","K","n","o","w","l","e","d","g","e","C","h","e","c","k","s">>

Lines == DOMAIN LineText
Markers == DOMAIN MarkerText

\* where each marker starts in each line (from 0), -1 where it does not occur
MarkerOffset ==
    [l \in Lines \cup {"pad"}, m \in Markers |->
        IF l = "pad" THEN -1 ELSE Find(LineText[l], MarkerText[m]) - 1]

LineWidth(l) == IF l = "pad" THEN PadWidth ELSE Len(LineText[l])

RECURSIVE TextWidth(_)
TextWidth(script) == IF script = <<>> THEN 0 ELSE LineWidth(Head(script)) + TextWidth(Tail(script))

\* str::contains on a script
ScriptContains(script, m) == \E i \in 1..Len(script) : MarkerOffset[script[i], m] >= 0

\* str::find on a script: the character offset of the first occurrence, -1 if none
ScriptFind(script, m) ==
    LET hits == {i \in 1..Len(script) : MarkerOffset[script[i], m] >= 0}
    IN  IF hits = {} THEN -1
        ELSE LET i == CHOOSE x \in hits : \A y \in hits : x <= y
             IN  TextWidth(SubSeq(script, 1, i - 1)) + MarkerOffset[script[i], m]

\* &content[pos..] where pos is the start of a marker found in the script: the
\* lines from the one holding the marker on (no line holds two markers in order)
ScriptFrom(script, m) ==
    LET i == CHOOSE x \in 1..Len(script) :
                /\ MarkerOffset[script[x], m] >= 0
                /\ \A y \in 1..(x - 1) : MarkerOffset[script[y], m] < 0
    IN  SubSeq(script, i, Len(script))

NavDistanceLimit == 500

\* output_validator.rs:27-79, the rule of scripts/navigation.js
NavigationRule(content) ==
    IF ~ScriptContains(content, "M_block") THEN Err("Navigation blocking function not found")
    ELSE IF ~ScriptContains(content, "M_nav") THEN Err("Navigation state update not found")
    ELSE IF ScriptFind(content, "M_then") < 0 THEN Err("navigateToPage then block not found")
    ELSE LET block_content == ScriptFrom(content, "M_then") IN
         IF ScriptFind(block_content, "M_audio") < 0
         THEN Err("initializePageAudio not found in then block")
         ELSE LET after_audio == ScriptFrom(block_content, "M_audio")
                  nav_pos == ScriptFind(after_audio, "M_nav") - MarkerOffset[after_audio[1], "M_audio"]
              IN  IF ScriptFind(after_audio, "M_nav") < 0
                  THEN Err("updateNavigationState() not found after initializePageAudio in then block")
                  ELSE IF nav_pos > NavDistanceLimit
                  THEN Err("updateNavigationState() too far from content load")
                  ELSE IF ~ScriptContains(content, "M_sidebar")
                  THEN Err("Sidebar navigation logging not found")
                  ELSE IF ~ScriptContains(content, "M_fib")
                  THEN Err("Fill-in-blank check function not found")
                  ELSE IF ~ScriptContains(content, "M_mc")
                  THEN Err("Multiple choice check function not found")
                  ELSE Ok

RequiredFunctions ==
    << "updateNavigationState", "shouldBlockNavigation", "navigateToPage",
       "checkMultipleChoice", "checkFillInBlank", "initializeNavigation" >>

FunctionMarker ==
    "updateNavigationState" :> [function |-> "M_function_updateNavigationState", window |-> "M_window_updateNavigationState"] @@
    "shouldBlockNavigation" :> [function |-> "M_function_shouldBlockNavigation", window |-> "M_window_shouldBlockNavigation"] @@
    "navigateToPage" :> [function |-> "M_function_navigateToPage", window |-> "M_window_navigateToPage"] @@
    "checkMultipleChoice" :> [function |-> "M_function_checkMultipleChoice", window |-> "M_window_checkMultipleChoice"] @@
    "checkFillInBlank" :> [function |-> "M_function_checkFillInBlank", window |-> "M_window_checkFillInBlank"] @@
    "initializeNavigation" :> [function |-> "M_function_initializeNavigation", window |-> "M_window_initializeNavigation"]

\* navigation_generator.rs:57-101: the errors validate_navigation_js collects
ValidateNavigationJs(js_content) ==
    LET missing == SelectSeq(RequiredFunctions,
                     LAMBDA f : /\ ~ScriptContains(js_content, FunctionMarker[f].function)
                                /\ ~ScriptContains(js_content, FunctionMarker[f].window))
    IN  [i \in 1..Len(missing) |-> "Missing required function"]
        \o (IF ~ScriptContains(js_content, "M_block")
            THEN <<"Navigation blocking check not found in navigation flow">> ELSE <<>>)
        \o (IF ~ScriptContains(js_content, "M_audioStmt") \/ ~ScriptContains(js_content, "M_navStmt")
            THEN <<"Navigation state update not properly placed after content load">> ELSE <<>>)
        \o (IF ~ScriptContains(js_content, "M_sidebar")
            THEN <<"Sidebar navigation logging not found">> ELSE <<>>)

\* the lines of the page-transition handler between ".then(html => {" and "});"
HandlerLines == {"inject", "audio", "navCall", "pad"}

\* a script: the function definitions before or after the handler or absent,
\* and the sidebar log and the answer-checking functions present or not
Script(body, defs, extras) ==
    (IF defs = "before" THEN <<"blockDef", "navDef">> ELSE <<>>)
    \o <<"navigateDef", "then">> \o body \o <<"close">>
    \o (IF defs = "after" THEN <<"blockDef", "navDef">> ELSE <<>>)
    \o (IF extras THEN <<"initDef", "sidebar", "fib", "mc">> ELSE <<>>)

ScriptInputs ==
    [body : SeqsUpTo(HandlerLines, MaxHandlerLen),
     defs : {"before", "after", "none"},
     extras : BOOLEAN]

RuleInit ==
    /\ call \in {"navigation_rule", "validate_navigation_js"}
    /\ req \in ScriptInputs
    /\ pc = "start"
    /\ platform = "unix"
    /\ zip = <<>>
    /\ disk = NoDisk
    /\ ret = NoRet
    /\ report = NoReport
    /\ out = <<>>
    /\ events = <<>>
    /\ buffer = "none"
    /\ listener = "unobserved"

\* output_validator.rs:155, validator(&content) for scripts/navigation.js
ApplyNavigationRule ==
    /\ call = "navigation_rule"
    /\ pc = "start"
    /\ ret' = NavigationRule(Script(req.body, req.defs, req.extras))
    /\ pc' = "done"
    /\ UNCHANGED <<call, platform, req, zip, disk, report, out, events, buffer, listener>>

\* navigation_generator.rs:57-101
ApplyValidateNavigationJs ==
    /\ call = "validate_navigation_js"
    /\ pc = "start"
    /\ out' = ValidateNavigationJs(Script(req.body, req.defs, req.extras))
    /\ ret' = IF out' = <<>> THEN Ok ELSE Err("errors")
    /\ pc' = "done"
    /\ UNCHANGED <<call, platform, req, zip, disk, report, events, buffer, listener>>

RuleNext ==
    \/ ApplyNavigationRule
    \/ ApplyValidateNavigationJs

SpecRule == RuleInit /\ [][RuleNext]_vars

(***************************************************************************)
(* output_validator.rs: the rules of styles/main.css and index.html, and   *)
(* validate_scorm_package.                                                 *)
(***************************************************************************)
MaxPages == 1

NavName == <<"s","c","r","i","p","t","s","/","n","a","v","i","g","a","t","i","o","n",".","j","s">>
CssName == <<"s","t","y","l","e","s","/","m","a","i","n",".","c","s","s">>

\* str::ends_with
EndsWith(s, p) ==
    /\ Len(p) <= Len(s)
    /\ SubSeq(s, Len(s) - Len(p) + 1, Len(s)) = p

\* a rule that looks for the banned style only after the required ones
CssRule_BannedLast(content) ==
    IF ~ScriptContains(content, "M_body") \/ ~ScriptContains(content, "M_100vh")
    THEN Err("Body missing proper height: 100vh")
    ELSE IF ~ScriptContains(content, "M_footer") THEN Err("Footer styles missing")
    ELSE IF ~ScriptContains(content, "M_navDisabled")
    THEN Err("Disabled navigation button styles missing")
    ELSE IF ScriptContains(content, "M_cssBanned")
    THEN Err("Found problematic min-height that pushes footer off screen")
    ELSE Ok

\* output_validator.rs:86-110, the rule of styles/main.css
CssRule(content) ==
    IF ScriptContains(content, "M_cssBanned")
    THEN Err("Found problematic min-height that pushes footer off screen")
    ELSE IF ~ScriptContains(content, "M_body") \/ ~ScriptContains(content, "M_100vh")
    THEN Err("Body missing proper height: 100vh")
    ELSE IF ~ScriptContains(content, "M_footer") THEN Err("Footer styles missing")
    ELSE IF ~ScriptContains(content, "M_navDisabled")
    THEN Err("Disabled navigation button styles missing")
    ELSE Ok

\* output_validator.rs:117-136, the rule of index.html
HtmlRule(content) ==
    IF ~ScriptContains(content, "M_prev") THEN Err("Previous button not found")
    ELSE IF ~ScriptContains(content, "M_next") THEN Err("Next button not found")
    ELSE IF ~ScriptContains(content, "M_content") THEN Err("Content container not found")
    ELSE IF ~ScriptContains(content, "M_alert") THEN Err("Alert container not found")
    ELSE Ok

\* the keys of validation_rules
RulePaths == {NavName, CssName, IndexName}

\* validation_rules[path](content)
ApplyRule(path, content) ==
    CASE path = NavName -> NavigationRule(content)
      [] path = CssName -> CssRule(content)
      [] path = IndexName -> HtmlRule(content)

\* sample texts of the three checked files and of a page
GoodScript == Script(<<"inject", "audio", "navCall">>, "before", TRUE)
FarScript == Script(<<"inject", "audio", "pad", "pad", "pad", "navCall">>, "before", TRUE)
IncompleteScript == Script(<<"inject", "audio", "navCall">>, "before", FALSE)
GoodCss ==
    <<"cssBody", "cssMain", "cssFooter", "cssNavButton", "cssNavDisabled", "cssKc", "cssFill">>
BannedCss == GoodCss \o <<"cssBanned">>
SplitDisabledCss ==
    <<"cssBody", "cssMain", "cssFooter", "cssNavButton", "cssDisabled", "cssKc", "cssFill">>
GoodIndex == <<"htmlPrev", "htmlNext", "htmlContent", "htmlAlert">>
NoAlertIndex == <<"htmlPrev", "htmlNext", "htmlContent">>
BareIndex == <<"htmlContent">>
PlainPage == <<"pageText">>
GoodCheckPage == <<"pageText", "pageKc", "pageFillStyled", "pageSubmitAll">>
BadCheckPage == <<"pageText", "pageKc", "pageFillPlain", "pageSubmitOne">>

\* how an entry of the archive answers by_name / by_index and read_to_string
FileStates == {"ok", "unopenable", "nonutf8"}

ArchiveFile(path, state, text) == [path |-> path, state |-> state, text |-> text]

\* the entries an archive may hold under one path
FilesAt(path, texts) ==
    {ArchiveFile(path, "unopenable", <<>>), ArchiveFile(path, "nonutf8", <<>>)}
    \cup {ArchiveFile(path, "ok", t) : t \in texts}

PagePaths ==
    { <<"p","a","g","e","s","/","t","o","p","i","c","-","1",".","h","t","m","l">>,
      <<"p","a","g","e","s","/","i","n","t","r","o",".","h","t","m","l">>,
      <<"m","e","d","i","a","/","a",".","p","n","g">> }

PageFiles == UNION {FilesAt(path, {PlainPage, GoodCheckPage, BadCheckPage}) : path \in PagePaths}

OptionalFile(files) == {<<>>} \cup {<<f>> : f \in files}

\* zip_data: bytes that are no ZIP archive, or an archive and its entries
ZipInputs ==
    {[isZip |-> FALSE, entries |-> <<>>]}
    \cup {[isZip |-> TRUE, entries |-> n \o c \o i \o pages] :
            n \in OptionalFile(FilesAt(NavName, {GoodScript, FarScript})),
            c \in OptionalFile(FilesAt(CssName, {GoodCss, BannedCss})),
            i \in OptionalFile(FilesAt(IndexName, {GoodIndex, NoAlertIndex})),
            pages \in SeqsUpTo(PageFiles, MaxPages)}

Panic == [kind |-> "panic", msg |-> "called Result::unwrap() on an Err value"]

\* the bytes under validation: the argument, or the buffer the generator filled
ZipData == IF call = "validate_scorm_package" THEN req.zip_data
           ELSE [isZip |-> TRUE, entries |-> zip]

\* ZipArchive::by_name: the index of the entry of that name, 0 if there is none
ByName(entries, path) ==
    LET hits == {i \in 1..Len(entries) : entries[i].path = path}
    IN  IF hits = {} THEN 0 ELSE CHOOSE i \in hits : \A j \in hits : j <= i

AddSuccess(r, file, message) ==
    [r EXCEPT !.success = Append(@, [file |-> file, message |-> message])]

AddError(r, file, message) ==
    [r EXCEPT !.errors = Append(@, [file |-> file, message |-> message])]

\* a test that is true only when nothing passed
HasErrors_NothingPassed(r) == r.errors # <<>> /\ r.success = <<>>

\* output_validator.rs:228-230
HasErrors(r) == r.errors # <<>>

\* the validator hands back to its caller: a standalone call is over, the
\* generator goes on (Ok) or returns the error through "?"
ValLeave(result) ==
    LET leaves == (call = "validate_scorm_package") \/ (result.kind # "ok")
    IN  /\ ret' = IF leaves THEN result ELSE ret
        /\ pc' = IF leaves THEN "done" ELSE "validated"

ValInit ==
    /\ call = "validate_scorm_package"
    /\ req \in [zip_data : ZipInputs]
    /\ pc = "open"
    /\ platform = "unix"
    /\ zip = <<>>
    /\ disk = NoDisk
    /\ ret = NoRet
    /\ report = NoReport
    /\ out = [visited |-> {}, i |-> 0]
    /\ events = <<>>
    /\ buffer = "none"
    /\ listener = "unobserved"

\* output_validator.rs:141-145
ValOpenArchive ==
    /\ pc = "open"
    /\ IF ZipData.isZip
       THEN /\ pc' = "rules"
            /\ ret' = ret
       ELSE ValLeave(Err("Failed to open ZIP archive"))
    /\ report' = NoReport
    /\ out' = [visited |-> {}, i |-> 0]
    /\ UNCHANGED <<call, platform, req, zip, disk, events, buffer, listener>>

\* output_validator.rs:148-168, one turn of the loop over validation_rules,
\* a HashMap: the rules come in any order
ValCheckRule ==
    /\ pc = "rules"
    /\ \E path \in RulePaths \ out.visited :
        LET n == ByName(ZipData.entries, path)
            file == ZipData.entries[n]
        IN  /\ out' = [out EXCEPT !.visited = @ \cup {path}]
            /\ IF n = 0 \/ file.state = "unopenable"
               THEN /\ report' = AddError(report, path, "File not found in package")
                    /\ UNCHANGED <<pc, ret>>
               ELSE IF file.state = "nonutf8"
               THEN /\ ValLeave(Err("Failed to read"))
                    /\ report' = report
               ELSE /\ report' = IF ApplyRule(path, file.text) = Ok
                                 THEN AddSuccess(report, path, "Validation passed")
                                 ELSE AddError(report, path, ApplyRule(path, file.text).msg)
                    /\ UNCHANGED <<pc, ret>>
    /\ UNCHANGED <<call, platform, req, zip, disk, events, buffer, listener>>

ValRulesDone ==
    /\ pc = "rules"
    /\ out.visited = RulePaths
    /\ pc' = "pages"
    /\ UNCHANGED <<call, platform, req, zip, disk, ret, report, out, events, buffer, listener>>

\* output_validator.rs:180-199, the checks of one topic page
PageErrors(r, name, content) ==
    LET classMissing == /\ ScriptContains(content, "M_fillId")
                        /\ ~ScriptContains(content, "M_fillClass")
        submitMissing == /\ ScriptContains(content, "M_fillId")
                         /\ ~ScriptContains(content, "M_submitAll")
        r1 == IF classMissing
              THEN AddError(r, name, "Fill-in-blank input missing proper class") ELSE r
    IN  IF ~ScriptContains(content, "M_kc") THEN r
        ELSE IF submitMissing
        THEN AddError(r1, name, "Fill-in-blank submit button missing proper onclick handler")
        ELSE r1

\* output_validator.rs:171-201, one turn of the loop over the entries
ValCheckPage ==
    /\ pc = "pages"
    /\ out.i < Len(ZipData.entries)
    /\ LET file == ZipData.entries[out.i + 1]
           content == IF file.state = "ok" THEN file.text ELSE <<>>
       IN  IF file.state = "unopenable"
           THEN /\ ValLeave(Panic)
                /\ UNCHANGED <<report, out>>
           ELSE /\ report' = IF /\ StartsWith(file.path, <<"p","a","g","e","s","/","t","o","p","i","c","-">>)
                                /\ EndsWith(file.path, <<".","h","t","m","l">>)
                             THEN PageErrors(report, file.path, content)
                             ELSE report
                /\ out' = [out EXCEPT !.i = @ + 1]
                /\ UNCHANGED <<pc, ret>>
    /\ UNCHANGED <<call, platform, req, zip, disk, events, buffer, listener>>

\* output_validator.rs:203
ValReturn ==
    /\ pc = "pages"
    /\ out.i = Len(ZipData.entries)
    /\ ValLeave(Ok)
    /\ UNCHANGED <<call, platform, req, zip, disk, report, out, events, buffer, listener>>

ValNext ==
    \/ ValOpenArchive
    \/ ValCheckRule
    \/ ValRulesDone
    \/ ValCheckPage
    \/ ValReturn

SpecVal == ValInit /\ [][ValNext]_vars

(***************************************************************************)
(* commands.rs generate_scorm_enhanced and generator_enhanced.rs           *)
(* generate_scorm_package.  The templates (templates/*.hbs) decide what    *)
(* the generators render; req.templates says which of the sample texts     *)
(* each of them yields.                                                    *)
(***************************************************************************)
MaxGenTopics == 1
MaxMedia == 1

\* style_generator.rs:50-101: the errors validate_css collects
ValidateCss(css_content) ==
    (IF ScriptContains(css_content, "M_cssBanned")
     THEN <<"Found problematic min-height: 800px !important that pushes footer off screen">>
     ELSE <<>>)
    \o (IF ~ScriptContains(css_content, "M_body") \/ ~ScriptContains(css_content, "M_100vh")
        THEN <<"Body should have height: 100vh for proper layout">> ELSE <<>>)
    \o (IF ~ScriptContains(css_content, "M_mainArea") \/ ~ScriptContains(css_content, "M_flex")
        THEN <<"Main area should use flexbox layout">> ELSE <<>>)
    \o (IF ~ScriptContains(css_content, "M_footer")
        THEN <<"Footer styles are missing">> ELSE <<>>)
    \o (IF ~ScriptContains(css_content, "M_navButton")
        THEN <<"Navigation button styles are missing">> ELSE <<>>)
    \o (IF ~ScriptContains(css_content, "M_disabled")
        THEN <<"Disabled state styles are missing">> ELSE <<>>)
    \o (IF ~ScriptContains(css_content, "M_cssKc")
        THEN <<"Knowledge check container styles are missing">> ELSE <<>>)
    \o (IF ~ScriptContains(css_content, "M_cssFill")
        THEN <<"Fill-in-blank input styles are missing">> ELSE <<>>)

\* what the templates of a build render
GoodTemplates == [nav |-> "good", css |-> "good", index |-> "good", topic |-> "good"]

TemplateSets ==
    { GoodTemplates,
      [GoodTemplates EXCEPT !.nav = "far"],
      [GoodTemplates EXCEPT !.nav = "incomplete"],
      [GoodTemplates EXCEPT !.css = "split"],
      [GoodTemplates EXCEPT !.index = "noalert"],
      [GoodTemplates EXCEPT !.index = "bare"],
      [GoodTemplates EXCEPT !.topic = "bad"] }

RenderNavigationJs(templates) ==
    CASE templates.nav = "good" -> GoodScript
      [] templates.nav = "far" -> FarScript
      [] templates.nav = "incomplete" -> IncompleteScript

RenderMainCss(templates) ==
    IF templates.css = "good" THEN GoodCss ELSE SplitDisabledCss


RenderIndexHtml(templates) ==
    CASE templates.index = "good" -> GoodIndex
      [] templates.index = "noalert" -> NoAlertIndex
      [] templates.index = "bare" -> BareIndex

\* html_generator_enhanced.rs:174-314: the knowledge check is rendered when it
\* is enabled and has questions
RenderTopicPage(templates, topic) ==
    IF ~HasKnowledgeCheck(topic) THEN PlainPage
    ELSE IF templates.topic = "good" THEN GoodCheckPage ELSE BadCheckPage

\* MediaFile.filename as the front end may pass it
MediaFilenames ==
    { <<"m","e","d","i","a","/","a",".","p","n","g">>,
      <<".",".","/","a">> }

\* file names of the project's media directory
DiskNames ==
    { <<"a",".","p","n","g">>,
      <<"b",".","m","p","3">> }

\* commands.rs:276-280
MediaPath(filename) ==
    IF StartsWith(filename, <<"m","e","d","i","a","/">>) THEN filename
    ELSE <<"m","e","d","i","a","/">> \o filename

\* commands.rs:289-294: the progress events of the media loop
RECURSIVE MediaProgress(_, _)
MediaProgress(idx, total) ==
    IF idx >= total THEN <<>>
    ELSE (IF idx % 5 = 0 \/ idx = total - 1 THEN <<40 + ((idx * 20) \div total)>> ELSE <<>>)
         \o MediaProgress(idx + 1, total)

GenTopics ==
    [id : {<<"t","o","p","i","c","-","1">>, <<".",".","/","x">>},
     knowledge_check : {[present |-> FALSE, enabled |-> FALSE, questions |-> 0],
                        [present |-> TRUE, enabled |-> TRUE, questions |-> 1]}]

\* course_data that deserialises into a GenerateScormRequest
GenRequests ==
    [course_title : {<<"a">>},
     topics : SeqsUpTo(GenTopics, MaxGenTopics),
     welcome_page : BOOLEAN, learning_objectives_page : BOOLEAN, assessment : BOOLEAN,
     pass_mark : {80}]

NoFiles == [given |-> FALSE, files |-> <<>>]

GenInputs ==
    [valid : {TRUE},
     request : GenRequests,
     media_files : {NoFiles} \cup [given : {TRUE}, files : SeqsUpTo(MediaFilenames, MaxMedia)],
     templates : TemplateSets]
    \cup
    [valid : {FALSE},
     request : {[course_title |-> <<>>, topics |-> <<>>, welcome_page |-> FALSE,
                 learning_objectives_page |-> FALSE, assessment |-> FALSE,
                 pass_mark |-> 80]},
     media_files : {NoFiles},
     templates : {GoodTemplates}]

\* generator_enhanced.rs:151-152
GeneratorOptions == [method |-> "Deflated", perm |-> "default"]

GenEntry(path, kind, text) ==
    [path |-> path, kind |-> kind, method |-> GeneratorOptions.method,
     perm |-> GeneratorOptions.perm, state |-> "ok", text |-> text]

OkBytes(bytes) == [kind |-> "ok", msg |-> "none", bytes |-> bytes]

\* "?": the call returns the error
GenFail(msg) ==
    /\ ret' = Err(msg)
    /\ pc' = "done"

\* ZipWriter::start_file for a name the archive already holds: the zip crate of
\* the build (Cargo.toml is not in src/) either adds a second entry of that
\* name or returns an error
HasEntry(z, path) == \E i \in 1..Len(z) : z[i].path = path

\* output_validator.rs:232-247: the counts, and one line for each error
Summary(r) == [success |-> Len(r.success), errors |-> r.errors]

\* generator_enhanced.rs:240-243
ValidationFailure(r) == [text |-> "SCORM package validation failed", summary |-> Summary(r)]

\* a return that does not look at the report
ReportVerdict_IgnoresErrors(r, bytes) == OkBytes(bytes)

\* generator_enhanced.rs:238-246: what becomes of the buffer once it is validated
ReportVerdict(r, bytes) ==
    IF HasErrors(r) THEN Err(ValidationFailure(r)) ELSE OkBytes(bytes)

\* generator_enhanced.rs:155-223: the text entries in the order they are written,
\* for a run in which every template renders and the identifier drawn is u
PackageEntries(request, templates, u) ==
    << GenEntry(NavName, "navigation", RenderNavigationJs(templates)),
       GenEntry(CssName, "css", RenderMainCss(templates)),
       GenEntry(IndexName, "index", RenderIndexHtml(templates)) >>
    \o (IF request.welcome_page
        THEN <<GenEntry(PagePath(<<"w","e","l","c","o","m","e">>), "page", PlainPage)>> ELSE <<>>)
    \o (IF request.learning_objectives_page
        THEN <<GenEntry(PagePath(<<"o","b","j","e","c","t","i","v","e","s">>), "page", PlainPage)>> ELSE <<>>)
    \o [i \in 1..Len(request.topics) |->
           GenEntry(PagePath(request.topics[i].id), "topic",
                    RenderTopicPage(templates, request.topics[i]))]
    \o (IF request.assessment
        THEN <<GenEntry(PagePath(<<"a","s","s","e","s","s","m","e","n","t">>), "page", PlainPage)>> ELSE <<>>)
    \o <<GenEntry(ManifestName, "manifest", SimpleManifestEvents(request, u))>>

GenInit ==
    /\ call = "generate_scorm_enhanced"
    /\ req \in GenInputs
    /\ pc = "parse"
    /\ platform = "unix"
    /\ zip = <<>>
    /\ disk = NoDisk
    /\ ret = NoRet
    /\ report = NoReport
    /\ out = [media_files |-> {}, topic |-> 0]
    /\ events = <<>>
    /\ buffer = "none"
    /\ listener = "unobserved"

\* commands.rs:186 and the like, let _ = app.emit(..): the event reaches a
\* listener, reaches none, or emit returns an error; the call goes on at once
Outcomes == {"delivered", "dropped", "failed"}

EmitOutcome(l) == IF l = "unobserved" THEN {l} ELSE Outcomes

\* a command that returns the error of a progress event that could not be sent
GenParse_EmitChecked ==
    /\ call = "generate_scorm_enhanced"
    /\ pc = "parse"
    /\ events' = Append(events, 10)
    /\ listener' \in EmitOutcome(listener)
    /\ IF listener' = "failed"
       THEN GenFail("Failed to emit progress")
       ELSE IF req.valid
            THEN pc' = "media" /\ ret' = ret
            ELSE GenFail("Failed to parse course data")
    /\ UNCHANGED <<call, platform, req, zip, disk, report, out, buffer>>

\* commands.rs:186-213
GenParse ==
    /\ call = "generate_scorm_enhanced"
    /\ pc = "parse"
    /\ events' = Append(events, 10)
    /\ IF req.valid
       THEN pc' = "media" /\ ret' = ret
       ELSE GenFail("Failed to parse course data")
    /\ UNCHANGED <<call, platform, req, zip, disk, report, out, buffer>>
    /\ listener' \in EmitOutcome(listener)

\* commands.rs:237-316: the files that were passed, or the project's media directory
GenCollectMedia ==
    /\ call = "generate_scorm_enhanced"
    /\ pc = "media"
    /\ IF req.media_files.given
       THEN LET files == req.media_files.files IN
            /\ out' = [out EXCEPT !.media_files =
                          {MediaPath(files[i]) : i \in 1..Len(files)}]
            /\ events' = events \o <<30, 40>> \o MediaProgress(0, Len(files))
            /\ pc' = "new"
            /\ ret' = ret
       ELSE /\ events' = Append(events, 30)
            /\ \/ /\ \E names \in {n \in SUBSET DiskNames : Cardinality(n) <= MaxMedia} :
                       out' = [out EXCEPT !.media_files =
                                  {<<"m","e","d","i","a","/">> \o n : n \in names}]
                  /\ pc' = "new"
                  /\ ret' = ret
               \/ /\ GenFail("Failed to read media directory")
                  /\ out' = out
    /\ UNCHANGED <<call, platform, req, zip, disk, report, buffer>>
    /\ listener' \in EmitOutcome(listener)

\* commands.rs:319-350 and generator_enhanced.rs:148-152: the generator is made
\* and called, and the ZipWriter is opened over the empty buffer
GenNewGenerator ==
    /\ call = "generate_scorm_enhanced"
    /\ pc = "new"
    /\ \/ /\ events' = events \o <<70, 80>>
          /\ buffer' = "open"
          /\ pc' = "navigation"
          /\ ret' = ret
       \/ /\ events' = Append(events, 70)
          /\ buffer' = buffer
          /\ GenFail("Failed to register template")
    /\ UNCHANGED <<call, platform, req, zip, disk, report, out>>
    /\ listener' \in EmitOutcome(listener)

\* generator_enhanced.rs:155-163
GenNavigation ==
    /\ call = "generate_scorm_enhanced"
    /\ pc = "navigation"
    /\ LET navigation_js == RenderNavigationJs(req.templates) IN
       IF ValidateNavigationJs(navigation_js) # <<>>
       THEN GenFail(ValidateNavigationJs(navigation_js)[1]) /\ zip' = zip
       ELSE /\ zip' = Append(zip, GenEntry(NavName, "navigation", navigation_js))
            /\ pc' = "css"
            /\ ret' = ret
    /\ UNCHANGED <<call, platform, req, disk, report, out, events, buffer, listener>>

\* generator_enhanced.rs:166-174
GenStyles ==
    /\ call = "generate_scorm_enhanced"
    /\ pc = "css"
    /\ LET main_css == RenderMainCss(req.templates) IN
       IF ValidateCss(main_css) # <<>>
       THEN GenFail(ValidateCss(main_css)[1]) /\ zip' = zip
       ELSE /\ zip' = Append(zip, GenEntry(CssName, "css", main_css))
            /\ pc' = "index"
            /\ ret' = ret
    /\ UNCHANGED <<call, platform, req, disk, report, out, events, buffer, listener>>

\* generator_enhanced.rs:177-181
GenIndex ==
    /\ call = "generate_scorm_enhanced"
    /\ pc = "index"
    /\ \/ /\ zip' = Append(zip, GenEntry(IndexName, "index", RenderIndexHtml(req.templates)))
          /\ pc' = "fixed"
          /\ ret' = ret
       \/ /\ GenFail("Failed to render index template")
          /\ zip' = zip
    /\ UNCHANGED <<call, platform, req, disk, report, out, events, buffer, listener>>

\* a generator that writes pages/welcome.html whether or not the request has one
GenFixedPages_AlwaysWelcome ==
    /\ call = "generate_scorm_enhanced"
    /\ pc = "fixed"
    /\ zip' = zip
          \o <<GenEntry(PagePath(<<"w","e","l","c","o","m","e">>), "page", PlainPage)>>
          \o (IF req.request.learning_objectives_page
              THEN <<GenEntry(PagePath(<<"o","b","j","e","c","t","i","v","e","s">>), "page", PlainPage)>> ELSE <<>>)
    /\ pc' = "topics"
    /\ UNCHANGED <<call, platform, req, disk, ret, report, out, events, buffer, listener>>

\* generator_enhanced.rs:184-198: pages/welcome.html and pages/objectives.html
GenFixedPages ==
    /\ call = "generate_scorm_enhanced"
    /\ pc = "fixed"
    /\ zip' = zip
          \o (IF req.request.welcome_page
              THEN <<GenEntry(PagePath(<<"w","e","l","c","o","m","e">>), "page", PlainPage)>> ELSE <<>>)
          \o (IF req.request.learning_objectives_page
              THEN <<GenEntry(PagePath(<<"o","b","j","e","c","t","i","v","e","s">>), "page", PlainPage)>> ELSE <<>>)
    /\ pc' = "topics"
    /\ UNCHANGED <<call, platform, req, disk, ret, report, out, events, buffer, listener>>

\* generator_enhanced.rs:201-207, one turn of the loop over the topics
GenTopicPage ==
    /\ call = "generate_scorm_enhanced"
    /\ pc = "topics"
    /\ out.topic < Len(req.request.topics)
    /\ LET topic == req.request.topics[out.topic + 1] IN
       \/ /\ zip' = Append(zip, GenEntry(PagePath(topic.id), "topic",
                                         RenderTopicPage(req.templates, topic)))
          /\ out' = [out EXCEPT !.topic = @ + 1]
          /\ UNCHANGED <<pc, ret>>
       \/ /\ GenFail("Failed to render topic template")
          /\ UNCHANGED <<zip, out>>
       \/ /\ HasEntry(zip, PagePath(topic.id))
          /\ GenFail("Failed to create topic page")
          /\ UNCHANGED <<zip, out>>
    /\ UNCHANGED <<call, platform, req, disk, report, events, buffer, listener>>

\* generator_enhanced.rs:210-223: pages/assessment.html and imsmanifest.xml
GenAssessmentAndManifest ==
    /\ call = "generate_scorm_enhanced"
    /\ pc = "topics"
    /\ out.topic = Len(req.request.topics)
    /\ \/ /\ \E u \in Uuids :
               zip' = zip
                 \o (IF req.request.assessment
                     THEN <<GenEntry(PagePath(<<"a","s","s","e","s","s","m","e","n","t">>), "page", PlainPage)>> ELSE <<>>)
                 \o <<GenEntry(ManifestName, "manifest", SimpleManifestEvents(req.request, u))>>
          /\ pc' = "mediafiles"
          /\ ret' = ret
       \/ /\ req.request.assessment
          /\ HasEntry(zip, PagePath(<<"a","s","s","e","s","s","m","e","n","t">>))
          /\ GenFail("Failed to create assessment.html")
          /\ zip' = zip
    /\ UNCHANGED <<call, platform, req, disk, report, out, events, buffer, listener>>

\* generator_enhanced.rs:226-231, one turn of the loop over media_files, a
\* HashMap: the files come in any order
GenMediaEntry ==
    /\ call = "generate_scorm_enhanced"
    /\ pc = "mediafiles"
    /\ \E path \in out.media_files :
        /\ zip' = Append(zip, GenEntry(path, "media", <<>>))
        /\ out' = [out EXCEPT !.media_files = @ \ {path}]
    /\ UNCHANGED <<call, pc, platform, req, disk, ret, report, events, buffer, listener>>

\* a generator that hands the buffer to the validator without finishing it
GenFinish_WriterLeftOpen ==
    /\ call = "generate_scorm_enhanced"
    /\ pc = "mediafiles"
    /\ out.media_files = {}
    /\ pc' = "open"
    /\ UNCHANGED <<call, platform, req, zip, disk, ret, report, out, events, buffer, listener>>

\* generator_enhanced.rs:233-238: zip.finish, then the validator is called
GenFinish ==
    /\ call = "generate_scorm_enhanced"
    /\ pc = "mediafiles"
    /\ out.media_files = {}
    /\ \/ pc' = "open" /\ ret' = ret /\ buffer' = "finished"
       \/ GenFail("Failed to finish ZIP") /\ buffer' = buffer
    /\ UNCHANGED <<call, platform, req, zip, disk, report, out, events, listener>>

\* a command that emits the last two progress events whatever the generator
\* returned
GenReturn_AlwaysComplete ==
    /\ call = "generate_scorm_enhanced"
    /\ pc = "validated"
    /\ ret' = ReportVerdict(report, zip)
    /\ events' = events \o <<95, 100>>
    /\ pc' = "done"
    /\ UNCHANGED <<call, platform, req, zip, disk, report, out, buffer>>
    /\ listener' \in EmitOutcome(listener)

\* generator_enhanced.rs:239-246 and commands.rs:350-370
GenReturn ==
    /\ call = "generate_scorm_enhanced"
    /\ pc = "validated"
    /\ ret' = ReportVerdict(report, zip)
    /\ events' = IF ret'.kind = "ok" THEN events \o <<95, 100>> ELSE events
    /\ pc' = "done"
    /\ UNCHANGED <<call, platform, req, zip, disk, report, out, buffer>>
    /\ listener' \in (IF ret'.kind = "ok" THEN EmitOutcome(listener) ELSE {listener})

GenNext ==
    \/ GenParse
    \/ GenCollectMedia
    \/ GenNewGenerator
    \/ GenNavigation
    \/ GenStyles
    \/ GenIndex
    \/ GenFixedPages
    \/ GenTopicPage
    \/ GenAssessmentAndManifest
    \/ GenMediaEntry
    \/ GenFinish
    \/ ValOpenArchive
    \/ ValCheckRule
    \/ ValRulesDone
    \/ ValCheckPage
    \/ ValReturn
    \/ GenReturn

SpecGen == GenInit /\ [][GenNext]_vars

(***************************************************************************)
(* The command with the outcome of each progress event followed: the same  *)
(* steps, for requests of one kind of topic and one media file whose       *)
(* templates pass, and a scheduler that keeps running the command (it is  *)
(* an async fn polled to its end).                                         *)
(***************************************************************************)
EmitInputs ==
    {i \in GenInputs :
        /\ i.templates = GoodTemplates
        /\ ~i.request.welcome_page
        /\ ~i.request.learning_objectives_page
        /\ ~i.request.assessment
        /\ \A k \in 1..Len(i.request.topics) :
              /\ i.request.topics[k].id = <<"t","o","p","i","c","-","1">>
              /\ i.request.topics[k].knowledge_check.present
        /\ \A k \in 1..Len(i.media_files.files) :
              i.media_files.files[k] = <<"m","e","d","i","a","/","a",".","p","n","g">>}

EmitInit ==
    /\ call = "generate_scorm_enhanced"
    /\ req \in EmitInputs
    /\ pc = "parse"
    /\ platform = "unix"
    /\ zip = <<>>
    /\ disk = NoDisk
    /\ ret = NoRet
    /\ report = NoReport
    /\ out = [media_files |-> {}, topic |-> 0]
    /\ events = <<>>
    /\ buffer = "none"
    /\ listener = "none"

SpecEmit == EmitInit /\ [][GenNext]_vars /\ WF_vars(GenNext)

(***************************************************************************)
(* The two style sheet checks as calls: the rule of styles/main.css of     *)
(* output_validator.rs and validate_css of style_generator.rs.             *)
(***************************************************************************)
CssLines ==
    <<"cssBanned", "cssBody", "cssMain", "cssFooter", "cssNavButton", "cssNavDisabled",
      "cssDisabled", "cssKc", "cssFill">>

\* a style sheet: some of the lines, in order
Stylesheets ==
    {SelectSeq(CssLines, LAMBDA l : l \in chosen) :
        chosen \in SUBSET {CssLines[i] : i \in 1..Len(CssLines)}}

CssInit ==
    /\ call \in {"css_rule", "validate_css"}
    /\ req \in [sheet : Stylesheets]
    /\ pc = "start"
    /\ platform = "unix"
    /\ zip = <<>>
    /\ disk = NoDisk
    /\ ret = NoRet
    /\ report = NoReport
    /\ out = <<>>
    /\ events = <<>>
    /\ buffer = "none"
    /\ listener = "unobserved"

\* output_validator.rs:155, validator(&content) for styles/main.css
ApplyCssRule ==
    /\ call = "css_rule"
    /\ pc = "start"
    /\ ret' = CssRule(req.sheet)
    /\ pc' = "done"
    /\ UNCHANGED <<call, platform, req, zip, disk, report, out, events, buffer, listener>>

\* style_generator.rs:50-101
ApplyValidateCss ==
    /\ call = "validate_css"
    /\ pc = "start"
    /\ out' = ValidateCss(req.sheet)
    /\ ret' = IF out' = <<>> THEN Ok ELSE Err("errors")
    /\ pc' = "done"
    /\ UNCHANGED <<call, platform, req, zip, disk, report, events, buffer, listener>>

CssNext ==
    \/ ApplyCssRule
    \/ ApplyValidateCss

SpecCss == CssInit /\ [][CssNext]_vars

(***************************************************************************)
(* project_storage.rs and project_storage_async.rs: concurrent calls on    *)
(* one project file path.  pc, req and ret hold one value for each call;   *)
(* disk holds the directory (name to file) and the content of each file,   *)
(* a file being named after the call that created it; out holds the lock   *)
(* of the path in FILE_LOCKS and the open file of each call.               *)
(***************************************************************************)
Callers == {"a", "b", "c"}

StoreOps == {"save", "save_async", "load", "delete"}

\* file_path, file_path.with_extension("scormproj.tmp") of project_storage.rs:146
\* and file_path.with_extension("tmp") of project_storage_async.rs:128
FileNames == {"project", "tmp", "async_tmp"}

NoFile == "none"

\* the json of a save, as the two pieces write_all may write it in
Json(c) == <<c, c>>

Complete(content) == \E c \in Callers : content = Json(c)

StoreFrame == UNCHANGED <<call, platform, req, zip, report, events, buffer, listener>>

Panicked == [kind |-> "panic", msg |-> "panicked"]

StoreInit ==
    /\ call = "project_storage"
    /\ req \in [Callers -> StoreOps]
    /\ pc = [c \in Callers |-> "idle"]
    /\ platform = "unix"
    /\ zip = <<>>
    /\ disk = [names |-> [n \in FileNames |-> NoFile],
               data |-> [c \in Callers |-> <<>>]]
    /\ ret = [c \in Callers |-> NoRet]
    /\ report = NoReport
    /\ out = [lock |-> [holder |-> NoFile, poisoned |-> FALSE],
              handle |-> [c \in Callers |-> NoFile],
              deleted |-> FALSE,
              late |-> FALSE]
    /\ events = <<>>
    /\ buffer = "none"
    /\ listener = "unobserved"

\* fs::File::create: a new file under the name, or the file of that name
\* truncated; the call holds it open
CreateFile(d, name, c) ==
    IF d.names[name] = NoFile
    THEN [names |-> [d.names EXCEPT ![name] = c],
          data |-> [d.data EXCEPT ![c] = <<>>]]
    ELSE [d EXCEPT !.data[d.names[name]] = <<>>]

\* a write of piece k of the json of c at offset k - 1 of the open file f
WritePiece(d, f, k, c) ==
    LET old == d.data[f]
        new == IF Len(old) >= k THEN [old EXCEPT ![k] = c]
               ELSE IF Len(old) = k - 1 THEN Append(old, c)
               ELSE old \o <<"hole">> \o <<c>>
    IN  [d EXCEPT !.data[f] = new]

\* fs::rename(from, to): the name to now names the file of from
RenameFile(d, from, to) ==
    [d EXCEPT !.names = [@ EXCEPT ![to] = d.names[from], ![from] = NoFile]]

\* fs::remove_file
RemoveFile(d, name) == [d EXCEPT !.names[name] = NoFile]

\* a save that unlocks by hand on success only: an error return or a panic
\* leaves the lock held
SaveExit_GuardLeaked(c, result) ==
    /\ ret' = [ret EXCEPT ![c] = result]
    /\ pc' = [pc EXCEPT ![c] = "done"]
    /\ out' = [out EXCEPT !.lock = IF result.kind = "ok"
                                    THEN [holder |-> NoFile, poisoned |-> @.poisoned]
                                    ELSE @,
                          !.handle[c] = NoFile]

\* the call returns: _guard is dropped, and a panic poisons the Mutex
SaveExit(c, result) ==
    /\ ret' = [ret EXCEPT ![c] = result]
    /\ pc' = [pc EXCEPT ![c] = "done"]
    /\ out' = [out EXCEPT !.lock = [holder |-> NoFile,
                                    poisoned |-> @.poisoned \/ result.kind = "panic"],
                          !.handle[c] = NoFile]

\* project_storage.rs:112-121: the lock of the path is taken from FILE_LOCKS
SaveLockMap(c) ==
    /\ req[c] = "save"
    /\ pc[c] = "idle"
    /\ pc' = [pc EXCEPT ![c] = "lock"]
    /\ out' = [out EXCEPT !.late = @ \/ out.deleted]
    /\ UNCHANGED <<disk, ret>>
    /\ StoreFrame

\* project_storage.rs:124-134: file_lock.lock(), a poisoned lock is recovered
SaveAcquire(c) ==
    /\ req[c] = "save"
    /\ pc[c] = "lock"
    /\ out.lock.holder = NoFile
    /\ out' = [out EXCEPT !.lock.holder = c]
    /\ pc' = [pc EXCEPT ![c] = "prepare"]
    /\ UNCHANGED <<disk, ret>>
    /\ StoreFrame

\* project_storage.rs:137-149: clone, timestamp, ensure_data_consistency,
\* to_string_pretty, create_dir_all
SavePrepare(c) ==
    /\ req[c] = "save"
    /\ pc[c] = "prepare"
    /\ \/ pc' = [pc EXCEPT ![c] = "create"] /\ UNCHANGED <<ret, out>>
       \/ SaveExit(c, Err("Failed to serialize project"))
       \/ SaveExit(c, Err("Failed to create directory"))
       \/ SaveExit(c, Panicked)
    /\ UNCHANGED disk
    /\ StoreFrame

\* project_storage.rs:152-156
SaveCreate(c) ==
    /\ req[c] = "save"
    /\ pc[c] = "create"
    /\ \/ /\ disk' = CreateFile(disk, "tmp", c)
          /\ out' = [out EXCEPT !.handle[c] = disk'.names["tmp"]]
          /\ pc' = [pc EXCEPT ![c] = "write"]
          /\ ret' = ret
       \/ /\ SaveExit(c, Err("Failed to create temp file"))
          /\ disk' = disk
    /\ StoreFrame

\* project_storage.rs:158-159, file.write_all: the first piece reaches the file
SaveWrite(c) ==
    /\ req[c] = "save"
    /\ pc[c] = "write"
    /\ \/ /\ disk' = WritePiece(disk, out.handle[c], 1, c)
          /\ pc' = [pc EXCEPT ![c] = "sync"]
          /\ UNCHANGED <<ret, out>>
       \/ /\ SaveExit(c, Err("Failed to write temp file"))
          /\ disk' = disk
    /\ StoreFrame

\* project_storage.rs:158-163: the rest of write_all, and file.sync_all
SaveSync(c) ==
    /\ req[c] = "save"
    /\ pc[c] = "sync"
    /\ \/ /\ disk' = WritePiece(disk, out.handle[c], 2, c)
          /\ pc' = [pc EXCEPT ![c] = "rename"]
          /\ UNCHANGED <<ret, out>>
       \/ /\ SaveExit(c, Err("Failed to write temp file"))
          /\ disk' = disk
       \/ /\ disk' = WritePiece(disk, out.handle[c], 2, c)
          /\ SaveExit(c, Err("Failed to sync temp file"))
    /\ StoreFrame

\* project_storage.rs:166-173
SaveRename(c) ==
    /\ req[c] = "save"
    /\ pc[c] = "rename"
    /\ \/ /\ disk.names["tmp"] # NoFile
          /\ disk' = RenameFile(disk, "tmp", "project")
          /\ SaveExit(c, Ok)
       \/ /\ disk' = RemoveFile(disk, "tmp")
          /\ SaveExit(c, Err("Failed to rename temp file to final location"))
    /\ StoreFrame

\* the async save returns; it holds no lock
AsyncExit(c, result) ==
    /\ ret' = [ret EXCEPT ![c] = result]
    /\ pc' = [pc EXCEPT ![c] = "done"]
    /\ out' = [out EXCEPT !.handle[c] = NoFile]

\* project_storage_async.rs:111-125: timestamp, validate_project_data,
\* to_string_pretty, create_dir_all
AsyncPrepare(c) ==
    /\ req[c] = "save_async"
    /\ pc[c] = "idle"
    /\ \/ /\ pc' = [pc EXCEPT ![c] = "create"]
          /\ out' = [out EXCEPT !.late = @ \/ out.deleted]
          /\ ret' = ret
       \/ AsyncExit(c, Err("Invalid project: missing version"))
       \/ AsyncExit(c, Err("Failed to serialize project"))
    /\ UNCHANGED disk
    /\ StoreFrame

\* project_storage_async.rs:128-132
AsyncCreate(c) ==
    /\ req[c] = "save_async"
    /\ pc[c] = "create"
    /\ \/ /\ disk' = CreateFile(disk, "async_tmp", c)
          /\ out' = [out EXCEPT !.handle[c] = disk'.names["async_tmp"]]
          /\ pc' = [pc EXCEPT ![c] = "write"]
          /\ ret' = ret
       \/ /\ AsyncExit(c, Err("Failed to create temporary file"))
          /\ disk' = disk
    /\ StoreFrame

\* project_storage_async.rs:134-135
AsyncWrite(c) ==
    /\ req[c] = "save_async"
    /\ pc[c] = "write"
    /\ \/ /\ disk' = WritePiece(disk, out.handle[c], 1, c)
          /\ pc' = [pc EXCEPT ![c] = "sync"]
          /\ UNCHANGED <<ret, out>>
       \/ /\ AsyncExit(c, Err("Failed to write file"))
          /\ disk' = disk
    /\ StoreFrame

\* project_storage_async.rs:134-138
AsyncSync(c) ==
    /\ req[c] = "save_async"
    /\ pc[c] = "sync"
    /\ \/ /\ disk' = WritePiece(disk, out.handle[c], 2, c)
          /\ pc' = [pc EXCEPT ![c] = "rename"]
          /\ UNCHANGED <<ret, out>>
       \/ /\ AsyncExit(c, Err("Failed to write file"))
          /\ disk' = disk
       \/ /\ disk' = WritePiece(disk, out.handle[c], 2, c)
          /\ AsyncExit(c, Err("Failed to sync file"))
    /\ StoreFrame

\* project_storage_async.rs:141-145: the rename fails when another save has
\* renamed the temporary file away
AsyncRename(c) ==
    /\ req[c] = "save_async"
    /\ pc[c] = "rename"
    /\ \/ /\ disk.names["async_tmp"] # NoFile
          /\ disk' = RenameFile(disk, "async_tmp", "project")
          /\ AsyncExit(c, Ok)
       \/ /\ disk' = disk
          /\ AsyncExit(c, Err("Failed to save file"))
    /\ StoreFrame

LoadExit(c, result) ==
    /\ ret' = [ret EXCEPT ![c] = result]
    /\ pc' = [pc EXCEPT ![c] = "done"]

\* project_storage.rs:178-180
LoadExists(c) ==
    /\ req[c] = "load"
    /\ pc[c] = "idle"
    /\ IF disk.names["project"] = NoFile
       THEN LoadExit(c, Err("Project file not found"))
       ELSE pc' = [pc EXCEPT ![c] = "read"] /\ ret' = ret
    /\ UNCHANGED <<disk, out>>
    /\ StoreFrame

\* project_storage.rs:182-190: read_to_string and serde_json::from_str
LoadRead(c) ==
    /\ req[c] = "load"
    /\ pc[c] = "read"
    /\ IF disk.names["project"] = NoFile
       THEN LoadExit(c, Err("Failed to read file"))
       ELSE LET contents == disk.data[disk.names["project"]] IN
            \/ /\ Complete(contents)
               /\ LoadExit(c, [kind |-> "ok", msg |-> "none", project |-> contents])
            \/ /\ ~Complete(contents)
               /\ LoadExit(c, Err("Failed to parse project file"))
            \/ LoadExit(c, Err("Failed to read file"))
    /\ UNCHANGED <<disk, out>>
    /\ StoreFrame

\* project_storage.rs:220-228: the exists test and the load for the project id
DeleteExists(c) ==
    /\ req[c] = "delete"
    /\ pc[c] = "idle"
    /\ IF disk.names["project"] = NoFile
       THEN LoadExit(c, Err("Project file not found"))
       ELSE pc' = [pc EXCEPT ![c] = "remove"] /\ ret' = ret
    /\ UNCHANGED <<disk, out>>
    /\ StoreFrame

\* project_storage.rs:231: fs::remove_file(file_path)
DeleteRemove(c) ==
    /\ req[c] = "delete"
    /\ pc[c] = "remove"
    /\ \/ /\ disk.names["project"] # NoFile
          /\ disk' = RemoveFile(disk, "project")
          /\ pc' = [pc EXCEPT ![c] = "folders"]
          /\ ret' = ret
       \/ /\ disk' = disk
          /\ LoadExit(c, Err("Failed to delete project file"))
    /\ out' = out
    /\ StoreFrame

\* project_storage.rs:234-263: the backup file and the project folders
DeleteFolders(c) ==
    /\ req[c] = "delete"
    /\ pc[c] = "folders"
    /\ \/ /\ LoadExit(c, Ok)
          /\ out' = [out EXCEPT !.deleted = TRUE]
       \/ /\ LoadExit(c, Err("Failed to delete project folder"))
          /\ out' = out
    /\ disk' = disk
    /\ StoreFrame

StoreNext ==
    \/ \E c \in Callers : SaveLockMap(c)
    \/ \E c \in Callers : SaveAcquire(c)
    \/ \E c \in Callers : SavePrepare(c)
    \/ \E c \in Callers : SaveCreate(c)
    \/ \E c \in Callers : SaveWrite(c)
    \/ \E c \in Callers : SaveSync(c)
    \/ \E c \in Callers : SaveRename(c)
    \/ \E c \in Callers : AsyncPrepare(c)
    \/ \E c \in Callers : AsyncCreate(c)
    \/ \E c \in Callers : AsyncWrite(c)
    \/ \E c \in Callers : AsyncSync(c)
    \/ \E c \in Callers : AsyncRename(c)
    \/ \E c \in Callers : LoadExists(c)
    \/ \E c \in Callers : LoadRead(c)
    \/ \E c \in Callers : DeleteExists(c)
    \/ \E c \in Callers : DeleteRemove(c)
    \/ \E c \in Callers : DeleteFolders(c)

SpecStore == StoreInit /\ [][StoreNext]_vars

(***************************************************************************)
(* The saves of project_storage.rs alone: every call is a save of the one  *)
(* path, and every call that can take a step goes on taking steps (each    *)
(* runs on a thread of its own).                                           *)
(***************************************************************************)
LockInit ==
    /\ StoreInit
    /\ \A c \in Callers : req[c] = "save"

SaveStep(c) ==
    \/ SaveLockMap(c)
    \/ SaveAcquire(c)
    \/ SavePrepare(c)
    \/ SaveCreate(c)
    \/ SaveWrite(c)
    \/ SaveSync(c)
    \/ SaveRename(c)

LockNext ==
    \/ \E c \in Callers : SaveLockMap(c)
    \/ \E c \in Callers : SaveAcquire(c)
    \/ \E c \in Callers : SavePrepare(c)
    \/ \E c \in Callers : SaveCreate(c)
    \/ \E c \in Callers : SaveWrite(c)
    \/ \E c \in Callers : SaveSync(c)
    \/ \E c \in Callers : SaveRename(c)

SpecLock == LockInit /\ [][LockNext]_vars /\ \A c \in Callers : WF_vars(SaveStep(c))

(***************************************************************************)
(* html_generator_enhanced.rs: the media items of a page as they are put   *)
(* into the data of the page template.                                     *)
(***************************************************************************)
MediaUrls ==
    { <<"h","t","t","p","s",":","/","/","w","w","w",".","y","o","u","t","u","b","e",".","c","o","m","/","w","a","t","c","h","?","v","=","x">>,
      <<"h","t","t","p","s",":","/","/","y","o","u","t","u",".","b","e","/","x">>,
      <<"v","i","d","e","o",".","m","p","4">>,
      <<"m","e","d","i","a","/","c","l","i","p",".","m","p","4">>,
      <<"h","t","t","p",":","/","/","e","x","a","m","p","l","e",".","c","o","m","/","a",".","m","p","4">> }

NoneValue == [some |-> FALSE, value |-> <<>>]
Some(v) == [some |-> TRUE, value |-> v]

\* generator_enhanced.rs:52-62, MediaItem
MediaItems ==
    [url : MediaUrls,
     embed_url : {NoneValue} \cup {Some(u) : u \in MediaUrls},
     is_youtube : {"None", "Some(true)", "Some(false)"}]

\* html_generator_enhanced.rs:86-90: a url that is neither http(s) nor under
\* media/ is prefixed with media/
ProcessedUrl(url) ==
    IF /\ ~StartsWith(url, <<"h","t","t","p",":","/","/">>)
       /\ ~StartsWith(url, <<"h","t","t","p","s",":","/","/">>)
       /\ ~StartsWith(url, <<"m","e","d","i","a","/">>)
    THEN <<"m","e","d","i","a","/">> \o url
    ELSE url

HasHostMarker(text) ==
    \/ Contains(text, <<"y","o","u","t","u","b","e",".","c","o","m">>)
    \/ Contains(text, <<"y","o","u","t","u",".","b","e">>)

\* html_generator_enhanced.rs:93-100: item.is_youtube.unwrap_or_else(..)
IsYoutube(item, url) ==
    IF item.is_youtube # "None"
    THEN item.is_youtube = "Some(true)"
    ELSE \/ (item.embed_url.some /\ HasHostMarker(item.embed_url.value))
         \/ HasHostMarker(url)

\* html_generator_enhanced.rs:102-108: the json! of one media item
MediaView(item) ==
    LET url == ProcessedUrl(item.url) IN
    [url |-> url, embed_url |-> item.embed_url, is_youtube |-> IsYoutube(item, url)]

MediaInit ==
    /\ call \in {"generate_welcome_page", "generate_objectives_page", "generate_topic_page"}
    /\ req \in MediaItems
    /\ pc = "start"
    /\ platform = "unix"
    /\ zip = <<>>
    /\ disk = NoDisk
    /\ ret = NoRet
    /\ report = NoReport
    /\ out = <<>>
    /\ events = <<>>
    /\ buffer = "none"
    /\ listener = "unobserved"

\* html_generator_enhanced.rs:84-110
WelcomeMedia ==
    /\ call = "generate_welcome_page"
    /\ pc = "start"
    /\ out' = <<MediaView(req)>>
    /\ pc' = "done"
    /\ ret' = Ok
    /\ UNCHANGED <<call, platform, req, zip, disk, report, events, buffer, listener>>

\* html_generator_enhanced.rs:133-159
ObjectivesMedia ==
    /\ call = "generate_objectives_page"
    /\ pc = "start"
    /\ out' = <<MediaView(req)>>
    /\ pc' = "done"
    /\ ret' = Ok
    /\ UNCHANGED <<call, platform, req, zip, disk, report, events, buffer, listener>>

\* html_generator_enhanced.rs:265-290
TopicMedia ==
    /\ call = "generate_topic_page"
    /\ pc = "start"
    /\ out' = <<MediaView(req)>>
    /\ pc' = "done"
    /\ ret' = Ok
    /\ UNCHANGED <<call, platform, req, zip, disk, report, events, buffer, listener>>

MediaNext == WelcomeMedia \/ ObjectivesMedia \/ TopicMedia

SpecMedia == MediaInit /\ [][MediaNext]_vars

(***************************************************************************)
(* media_storage.rs and save_project_with_media of project_export_import.rs*)
(* as a sequence of calls on one media id of one project.  disk holds the  *)
(* files {id}.bin, {id}.json and {id} of the media directory, ret the      *)
(* result of the last call, out what the calls so far were.                *)
(***************************************************************************)
\* media_storage.rs:6-18, MediaMetadata; an Option is "None" or its value
MediaTypes == {"image", "video", "youtube"}

\* clip_start and clip_end are supplied together
ClipTimes == {<<"None", "None">>, <<"5", "9">>}

MediaMetadatas ==
    { [page_id |-> "page-1", media_type |-> t, original_name |-> "a.jpg",
       mime_type |-> "image/jpeg", source |-> s, embed_url |-> e, title |-> "t",
       clip_start |-> c[1], clip_end |-> c[2]] :
         t \in MediaTypes, s \in {"None", "youtube"},
         e \in {"None", "https://www.youtube.com/embed/x"}, c \in ClipTimes }

\* the bytes of a media file
MediaBytes == {<<"A">>, <<"B">>}

\* base64 texts: of the bytes A, of the bytes B, and one that is not base64
Base64Texts == {"QQ==", "Qg==", "%"}

\* general_purpose::STANDARD.decode
Base64Decode(text) ==
    CASE text = "QQ==" -> [kind |-> "ok", data |-> <<"A">>]
      [] text = "Qg==" -> [kind |-> "ok", data |-> <<"B">>]
      [] OTHER -> [kind |-> "err", data |-> <<>>]

NoMetadata ==
    [page_id |-> "", media_type |-> "", original_name |-> "", mime_type |-> "None",
     source |-> "None", embed_url |-> "None", title |-> "", clip_start |-> "None",
     clip_end |-> "None"]

AbsentFile == [state |-> "absent", data |-> <<>>, metadata |-> NoMetadata]
DataFile(data) == [state |-> "ok", data |-> data, metadata |-> NoMetadata]
MetadataFile(metadata) == [state |-> "ok", data |-> <<>>, metadata |-> metadata]
\* a {id}.json that serde_json cannot parse
CorruptFile == [state |-> "corrupt", data |-> <<>>, metadata |-> NoMetadata]

\* media_storage.rs:114-117
HasYoutubeMetadata(metadata) ==
    \/ metadata.source = "youtube"
    \/ metadata.embed_url # "None"
    \/ metadata.clip_start # "None"
    \/ metadata.clip_end # "None"

\* media_storage.rs:131-141
CleanMetadata(metadata) ==
    [metadata EXCEPT !.source = "None", !.embed_url = "None",
                     !.clip_start = "None", !.clip_end = "None"]

\* media_storage.rs:119-153 and 211-236: what is stored for the metadata supplied
Sanitized(metadata) ==
    IF /\ HasYoutubeMetadata(metadata)
       /\ metadata.media_type # "video"
       /\ metadata.media_type # "youtube"
    THEN CleanMetadata(metadata)
    ELSE metadata

MediaResult(kind, msg, data) == [kind |-> kind, msg |-> msg, data |-> data]

MsInit ==
    /\ call = "media_storage"
    /\ pc = "idle"
    /\ platform = "unix"
    /\ req = <<>>
    /\ zip = <<>>
    /\ disk = [bin |-> AbsentFile, json |-> AbsentFile, plain |-> AbsentFile]
    /\ ret = MediaResult("none", "none", <<>>)
    /\ report = NoReport
    /\ out = [op |-> "none", supplied |-> <<>>, only_base64 |-> TRUE,
              unsanitized |-> FALSE]
    /\ events = <<>>
    /\ buffer = "none"
    /\ listener = "unobserved"

MsFrame == UNCHANGED <<call, pc, platform, req, zip, report, events, buffer, listener>>

\* what a call other than a successful store_media_base64 leaves in out
Noted(op) == [out EXCEPT !.op = op, !.only_base64 = FALSE]

\* media_storage.rs:157-180, store_media_internal: the outcomes on disk and
\* the result
StoreInternal(d, data, metadata) ==
    { [disk |-> d, ret |-> MediaResult("err", "Failed to write media data", <<>>)],
      [disk |-> [d EXCEPT !.bin = DataFile(data)],
       ret |-> MediaResult("err", "Failed to write metadata", <<>>)],
      [disk |-> [d EXCEPT !.bin = DataFile(data), !.json = MetadataFile(metadata)],
       ret |-> MediaResult("ok", "none", <<>>)] }

\* media_storage.rs:104-154
StoreMedia ==
    /\ \E data \in MediaBytes, metadata \in MediaMetadatas :
         \E o \in StoreInternal(disk, data, Sanitized(metadata)) :
            /\ disk' = o.disk
            /\ ret' = o.ret
            /\ out' = [Noted("store_media") EXCEPT !.supplied = data]
    /\ MsFrame

\* media_storage.rs:184-266
StoreMediaBase64 ==
    /\ \E dataBase64 \in Base64Texts, metadata \in MediaMetadatas :
         LET exists == disk.bin.state # "absent" /\ disk.json.state # "absent"
             decoded == Base64Decode(dataBase64)
             done(d, r) ==
                /\ disk' = d
                /\ ret' = r
                /\ out' = IF r.kind = "ok"
                          THEN [out EXCEPT !.op = "store_media_base64",
                                           !.supplied = decoded.data]
                          ELSE Noted("store_media_base64")
         IN  \/ /\ exists /\ disk.json.state = "ok"
                /\ disk.json.metadata = metadata
                /\ done(disk, MediaResult("ok", "none", <<>>))
             \/ /\ exists /\ disk.json.state = "ok"
                /\ disk.json.metadata # metadata
                /\ \/ done([disk EXCEPT !.json = MetadataFile(Sanitized(metadata))],
                           MediaResult("ok", "none", <<>>))
                   \/ done(disk, MediaResult("err", "Failed to update metadata", <<>>))
             \/ /\ ~(exists /\ disk.json.state = "ok")
                /\ IF decoded.kind = "err"
                   THEN done(disk, MediaResult("err", "Failed to decode base64", <<>>))
                   ELSE \E o \in StoreInternal(disk, decoded.data, Sanitized(metadata)) :
                           done(o.disk, o.ret)
    /\ MsFrame

\* project_export_import.rs:750-786: the media file is written as {id} and its
\* metadata, as supplied, as {id}.json
SaveProjectWithMedia ==
    /\ \E data \in MediaBytes, metadata \in MediaMetadatas :
         \/ /\ disk' = [disk EXCEPT !.plain = DataFile(data),
                                    !.json = MetadataFile(metadata)]
            /\ ret' = MediaResult("ok", "none", <<>>)
            /\ out' = [Noted("save_project_with_media") EXCEPT !.unsanitized = TRUE]
         \/ /\ disk' = disk
            /\ ret' = MediaResult("err", "Failed to save project", <<>>)
            /\ out' = Noted("save_project_with_media")
         \/ /\ disk' = [disk EXCEPT !.plain = DataFile(data)]
            /\ ret' = MediaResult("err", "Failed to write metadata", <<>>)
            /\ out' = Noted("save_project_with_media")
    /\ MsFrame

\* media_storage.rs:413-437
DeleteMedia ==
    /\ \/ /\ disk' = [disk EXCEPT !.bin = AbsentFile, !.json = AbsentFile]
          /\ ret' = MediaResult("ok", "none", <<>>)
       \/ /\ disk.bin.state # "absent"
          /\ disk' = disk
          /\ ret' = MediaResult("err", "Failed to delete media data", <<>>)
       \/ /\ disk.json.state # "absent"
          /\ disk' = [disk EXCEPT !.bin = AbsentFile]
          /\ ret' = MediaResult("err", "Failed to delete metadata", <<>>)
    /\ out' = Noted("delete_media")
    /\ MsFrame

\* media_storage.rs:440-466
GetMedia ==
    /\ ret' = IF disk.json.state = "absent"
              THEN MediaResult("err", "Failed to read metadata", <<>>)
              ELSE IF disk.json.state = "corrupt"
              THEN MediaResult("err", "Failed to parse metadata", <<>>)
              ELSE IF disk.bin.state = "absent"
              THEN MediaResult("err", "Failed to read media data", <<>>)
              ELSE MediaResult("ok", "none", disk.bin.data)
    /\ out' = [out EXCEPT !.op = "get_media"]
    /\ disk' = disk
    /\ MsFrame

\* media_storage.rs:172, fs::write is not atomic: a process that ends during
\* the write leaves an {id}.json that does not parse
MetadataCorrupted ==
    /\ disk.json.state = "ok"
    /\ disk' = [disk EXCEPT !.json = CorruptFile]
    /\ out' = Noted("none")
    /\ ret' = ret
    /\ MsFrame

MsNext ==
    \/ StoreMedia
    \/ StoreMediaBase64
    \/ SaveProjectWithMedia
    \/ DeleteMedia
    \/ GetMedia
    \/ MetadataCorrupted

SpecMediaStore == MsInit /\ [][MsNext]_vars

(***************************************************************************)
(* The command for requests whose topic ids are those of a fixed page as   *)
(* well: the same steps, for templates that pass.                          *)
(***************************************************************************)
PathTopics ==
    [id : {<<"t","o","p","i","c","-","1">>, <<"w","e","l","c","o","m","e">>},
     knowledge_check : {[present |-> FALSE, enabled |-> FALSE, questions |-> 0]}]

PathInputs ==
    [valid : {TRUE},
     request : [course_title : {<<"a">>},
                topics : SeqsUpTo(PathTopics, MaxGenTopics),
                welcome_page : BOOLEAN, learning_objectives_page : {FALSE},
                assessment : BOOLEAN, pass_mark : {80}],
     media_files : {NoFiles} \cup [given : {TRUE}, files : SeqsUpTo(MediaFilenames, MaxMedia)],
     templates : {GoodTemplates}]

PathInit ==
    /\ call = "generate_scorm_enhanced"
    /\ req \in PathInputs
    /\ pc = "parse"
    /\ platform = "unix"
    /\ zip = <<>>
    /\ disk = NoDisk
    /\ ret = NoRet
    /\ report = NoReport
    /\ out = [media_files |-> {}, topic |-> 0]
    /\ events = <<>>
    /\ buffer = "none"
    /\ listener = "unobserved"

SpecPaths == PathInit /\ [][GenNext]_vars

(***************************************************************************)
(* extract_project_zip of project_export_import.rs: the entries of the     *)
(* imported archive are written one by one below the temporary directory,  *)
(* then the project is written to the projects directory.  req is the      *)
(* archive, disk the set of places written, each the names from the root   *)
(* of the file system down to the file.                                    *)
(***************************************************************************)
MaxEntries == 2

\* entry names an imported archive may hold
EntryNames ==
    { <<"p","/","a",".","s","c","o","r","m","p","r","o","j">>,
      <<"p","/","m","e","d","i","a","/","a">>,
      <<"p","/">>,
      <<".",".","/","a">>,
      <<"/","a">>,
      <<"C",":","/","a">> }

Archives ==
    [valid : {TRUE}, entries : SeqsUpTo(EntryNames, MaxEntries)]
    \cup {[valid |-> FALSE, entries |-> <<>>]}

\* the drive the temporary directory and the projects directory are on
Drive(plat) == IF plat = "windows" THEN << <<"C", ":">> >> ELSE <<>>

\* TempDir::new(): a fresh directory below the system's temporary directory
ExtractionDir(plat) == Drive(plat) \o << <<"t","m","p">>, <<"x">> >>

\* get_projects_directory
ProjectsDir(plat) == Drive(plat) \o << <<"p","r","o","j","e","c","t","s">> >>

\* what the operating system makes of the segments of a path, from the place at
RECURSIVE Walk(_, _, _)
Walk(plat, at, segs) ==
    IF segs = <<>> THEN at
    ELSE IF Head(segs) = <<>> \/ Head(segs) = <<".">> THEN Walk(plat, at, Tail(segs))
    ELSE IF Head(segs) = <<".", ".">>
         THEN Walk(plat, IF Len(at) > Len(Drive(plat)) THEN SubSeq(at, 1, Len(at) - 1) ELSE at,
                   Tail(segs))
    ELSE Walk(plat, Append(at, Head(segs)), Tail(segs))

\* project_export_import.rs:636, temp_dir.path().join(&file_name), as the place
\* the path names: a name with a root (or a prefix) replaces the base
Joined(plat, base, name) ==
    Walk(plat,
         IF HasRoot(plat, name) \/ HasPrefix(plat, name) THEN Drive(plat) ELSE base,
         SplitOn(AfterPrefix(plat, name), "/", <<>>))

\* the place is below the directory
Below(dir, place) == Len(place) > Len(dir) /\ SubSeq(place, 1, Len(dir)) = dir

ExtractInit ==
    /\ call = "extract_project_zip"
    /\ pc = "open"
    /\ platform \in Platforms
    /\ req \in Archives
    /\ zip = <<>>
    /\ disk = {}
    /\ ret = NoRet
    /\ report = NoReport
    /\ out = [index |-> 0, project_file |-> <<>>, project_id_from_media |-> <<"?">>]
    /\ events = <<>>
    /\ buffer = "none"
    /\ listener = "unobserved"

ExtractFrame == UNCHANGED <<call, platform, req, zip, report, events, buffer, listener>>

\* project_export_import.rs:613-618
ExtractOpen ==
    /\ call = "extract_project_zip"
    /\ pc = "open"
    /\ \/ /\ req.valid
          /\ pc' = "entries"
          /\ ret' = ret
       \/ GenFail("Failed to create temp directory")
       \/ /\ ~req.valid
          /\ GenFail("Invalid ZIP file")
    /\ UNCHANGED <<disk, out>>
    /\ ExtractFrame

\* project_export_import.rs:624-663, one turn of the loop over the entries
ExtractEntry ==
    /\ call = "extract_project_zip"
    /\ pc = "entries"
    /\ out.index < Len(req.entries)
    /\ LET file_name == req.entries[out.index + 1]
           output_path == Joined(platform, ExtractionDir(platform), file_name)
       IN  IF EndsWith(file_name, <<"/">>)
           THEN /\ out' = [out EXCEPT !.index = @ + 1]
                /\ UNCHANGED <<pc, ret, disk>>
           ELSE \/ /\ disk' = disk \cup {output_path}
                   /\ out' = [out EXCEPT
                        !.index = @ + 1,
                        !.project_file =
                            IF EndsWith(file_name, <<".","s","c","o","r","m","p","r","o","j">>)
                            THEN output_path ELSE @,
                        !.project_id_from_media =
                            IF Contains(file_name, <<"/","m","e","d","i","a","/">>) /\ @ = <<"?">>
                            THEN SubSeq(file_name, 1,
                                        Find(file_name, <<"/","m","e","d","i","a","/">>) - 1)
                            ELSE @]
                   /\ UNCHANGED <<pc, ret>>
                \/ /\ GenFail("Failed to create file")
                   /\ UNCHANGED <<disk, out>>
    /\ ExtractFrame

\* project_export_import.rs:669-696: the project file of the archive is read and
\* the project is written to the projects directory under a new id
ExtractProject ==
    /\ call = "extract_project_zip"
    /\ pc = "entries"
    /\ out.index = Len(req.entries)
    /\ IF out.project_file = <<>>
       THEN GenFail("No .scormproj file found in ZIP") /\ disk' = disk
       ELSE \/ /\ disk' = disk \cup {Append(ProjectsDir(platform),
                                            <<"a","_","1",".","s","c","o","r","m","p","r","o","j">>)}
               /\ pc' = "media"
               /\ ret' = ret
            \/ GenFail("Failed to parse project file") /\ disk' = disk
    /\ out' = out
    /\ ExtractFrame

\* project_export_import.rs:699-745: the media files are copied to the new
\* project's media directory
ExtractMedia ==
    /\ call = "extract_project_zip"
    /\ pc = "media"
    /\ LET old_media_dir ==
               Joined(platform, ExtractionDir(platform),
                      out.project_id_from_media \o <<"/","m","e","d","i","a">>)
           files == {place \in disk : /\ Below(old_media_dir, place)
                                      /\ Len(place) = Len(old_media_dir) + 1}
           new_media_dir == ProjectsDir(platform) \o << <<"1">>, <<"m","e","d","i","a">> >>
       IN  \/ /\ disk' = IF out.project_id_from_media = <<"?">> THEN disk
                          ELSE disk \cup {Append(new_media_dir, place[Len(place)]) :
                                             place \in files}
              /\ ret' = Ok
              /\ pc' = "done"
           \/ /\ out.project_id_from_media # <<"?">>
              /\ files # {}
              /\ GenFail("Failed to copy media file")
              /\ disk' = disk
    /\ out' = out
    /\ ExtractFrame

ExtractNext ==
    \/ ExtractOpen
    \/ ExtractEntry
    \/ ExtractProject
    \/ ExtractMedia

SpecExtract == ExtractInit /\ [][ExtractNext]_vars

(***************************************************************************)
(* Claims about package.rs, checked under SpecPkg.                         *)
(***************************************************************************)
\* an archive entry name that leaves the extraction directory
EntryAbsolute(p) == StartsWith(p, <<"/">>)

EntryHasParentComponent(p) ==
    \E i \in 1..Len(SplitOn(p, "/", <<>>)) : SplitOn(p, "/", <<>>)[i] = <<".", ".">>

UnsafeEntryPath(p) == EntryAbsolute(p) \/ EntryHasParentComponent(p)

TakenResources == req.resources \o req.streamable

\* C2: on every assembly route every entry path is checked before it is written:
\* no entry with an absolute path or a parent-directory component is ever in the
\* archive, and a call that was given one has failed with the invalid-path error.
C2_PathValidationNotSkippable ==
    /\ \A i \in 1..Len(zip) : ~UnsafeEntryPath(zip[i].path)
    /\ (\E i \in 1..Len(TakenResources) : UnsafeEntryPath(TakenResources[i]))
          => ret = Err("Invalid resource path")

\* C3: in create_scorm_package a resource whose path contains ".." or starts with
\* "/" makes the call fail with the invalid-path error, and no entry is written
\* for that resource.
C3_DotDotOrSlashRejected ==
    call = "create_scorm_package" =>
        \A i \in 1..Len(req.resources) :
            LET p == req.resources[i] IN
            (Contains(p, <<".", ".">>) \/ StartsWith(p, <<"/">>)) =>
                /\ ret = Err("Invalid resource path")
                /\ \A j \in 1..Len(zip) : zip[j].path # p

\* C4: when assembly fails after some entries were written, no incomplete archive
\* file remains at the output path.
C4_NoPartialArchiveExposed ==
    (pc = "done" /\ ret.kind = "err" /\ zip # <<>>) => disk.state = "absent"

(***************************************************************************)
(* Claims about the manifest generators, checked under SpecMan.            *)
(***************************************************************************)
Entities ==
    { [chars |-> <<"&", "l", "t", ";">>, is |-> "<"],
      [chars |-> <<"&", "g", "t", ";">>, is |-> ">"],
      [chars |-> <<"&", "a", "m", "p", ";">>, is |-> "&"],
      [chars |-> <<"&", "a", "p", "o", "s", ";">>, is |-> "'"],
      [chars |-> <<"&", "q", "u", "o", "t", ";">>, is |-> "\""] }

EntityAt(s) == {e \in Entities : StartsWith(s, e.chars)}

\* character data or an attribute value an XML parser accepts
WellFormedContent(s, inAttribute) ==
    \A i \in 1..Len(s) :
        /\ s[i] # "<"
        /\ s[i] = "&" => EntityAt(SubSeq(s, i, Len(s))) # {}
        /\ inAttribute => s[i] # "\""

\* what an XML parser reads back
RECURSIVE Unescape(_)
Unescape(s) ==
    IF s = <<>> THEN <<>>
    ELSE IF EntityAt(s) # {}
         THEN LET e == CHOOSE x \in EntityAt(s) : TRUE
              IN  <<e.is>> \o Unescape(SubSeq(s, Len(e.chars) + 1, Len(s)))
         ELSE <<Head(s)>> \o Unescape(Tail(s))

RECURSIVE Balanced(_, _)
Balanced(doc, open) ==
    IF doc = <<>> THEN open = <<>>
    ELSE LET e == Head(doc) IN
         CASE e.ev = "Start" -> Balanced(Tail(doc), <<e.name>> \o open)
           [] e.ev = "End" -> open # <<>> /\ Head(open) = e.name /\ Balanced(Tail(doc), Tail(open))
           [] OTHER -> Balanced(Tail(doc), open)

WellFormedDoc(doc) ==
    /\ doc # <<>>
    /\ Balanced(doc, <<>>)
    /\ \A i \in 1..Len(doc) :
        /\ WellFormedContent(doc[i].text, FALSE)
        /\ \A j \in 1..Len(doc[i].attrs) : WellFormedContent(doc[i].attrs[j].value, TRUE)

\* the character data of every <title>
TitleTexts(doc) ==
    {doc[i + 1].text : i \in {k \in 1..(Len(doc) - 1) : doc[k].ev = "Start" /\ doc[k].name = "title"}}

AttributeValues(doc, name, key) ==
    {doc[i].attrs[j].value :
        <<i, j>> \in {x \in (1..Len(doc)) \X (1..8) :
                        /\ doc[x[1]].name = name
                        /\ x[2] <= Len(doc[x[1]].attrs)
                        /\ doc[x[1]].attrs[x[2]].key = key}}

ManifestReturned == pc = "done" /\ ret = Ok

\* C6: the generated manifest carries the course title and identifier in escaped
\* form (a parser reads back the text that was supplied) and the document is
\* well-formed, for generate_manifest and for generate_simple_manifest.
C6_ManifestTextEscapedAndWellFormed ==
    (call \in {"generate_manifest", "generate_simple_manifest"} /\ ManifestReturned) =>
        /\ WellFormedDoc(out)
        /\ \A t \in TitleTexts(out) :
              Unescape(t) = (IF call = "generate_manifest" THEN req.course.title
                             ELSE req.course_title)
        /\ call = "generate_manifest" =>
              \A v \in AttributeValues(out, "manifest", "identifier") :
                  Unescape(v) = req.course.identifier

\* C7: generate_manifest fails with the unsupported-version error for every
\* scormVersion other than "1.2", "2004", "2004.3" and "2004.4", and no manifest
\* output exists at any point of such a call.
C7_UnsupportedVersionRejected ==
    (call = "generate_manifest"
        /\ req.scorm_version \notin {"1.2", "2004", "2004.3", "2004.4"}) =>
        /\ out = <<>>
        /\ pc \in {"start", "done"}
        /\ pc = "done" => ret = Err("Invalid SCORM version")

C7_Witness ==
    /\ call = "generate_manifest"
    /\ req.scorm_version = "2004.2"
    /\ pc = "done"
    /\ ret = Err("Invalid SCORM version")

NamespaceKeys == {"xmlns", "xmlns:adlcp", "xmlns:adlseq", "xmlns:adlnav", "xmlns:imsss"}

DeclaredNamespaces(doc) == UNION {AttributeValues(doc, "manifest", k) : k \in NamespaceKeys}

AllAttributeValues(doc) ==
    UNION {{doc[i].attrs[j].value : j \in 1..Len(doc[i].attrs)} : i \in 1..Len(doc)}

Namespaces12 ==
    { <<"http://www.imsproject.org/xsd/imscp_rootv1p1p2">>,
      <<"http://www.adlnet.org/xsd/adlcp_rootv1p2">> }

Namespaces2004 ==
    { <<"http://www.imsglobal.org/xsd/imscp_v1p1">>,
      <<"http://www.adlnet.org/xsd/adlcp_v1p3">>,
      <<"http://www.adlnet.org/xsd/adlseq_v1p3">>,
      <<"http://www.adlnet.org/xsd/adlnav_v1p3">>,
      <<"http://www.imsglobal.org/xsd/imsss">> }

\* C8: for each supported version the manifest of generate_manifest declares
\* exactly the namespaces of that version's family and holds none of the other's.
C8_NamespaceSetMatchesVersion ==
    (call = "generate_manifest" /\ ManifestReturned) =>
        IF req.scorm_version = "1.2"
        THEN /\ DeclaredNamespaces(out) = Namespaces12
             /\ AllAttributeValues(out) \cap Namespaces2004 = {}
        ELSE /\ req.scorm_version \in {"2004", "2004.3", "2004.4"}
             /\ DeclaredNamespaces(out) = Namespaces2004
             /\ AllAttributeValues(out) \cap Namespaces12 = {}

C8_Witness ==
    /\ call = "generate_manifest"
    /\ ManifestReturned
    /\ req.scorm_version = "2004.4"
    /\ DeclaredNamespaces(out) = Namespaces2004

(***************************************************************************)
(* Claims about the navigation script generator, checked under SpecNav.    *)
(***************************************************************************)
\* C9: the has-knowledge-check value emitted for each topic is true exactly when
\* the topic has a KnowledgeCheck with enabled = true and at least one question.
C9_HasCheckTable ==
    (call = "generate_navigation_js" /\ pc = "done" /\ ret = Ok) =>
        /\ Len(out) = Len(req.topics)
        /\ \A i \in 1..Len(req.topics) :
            LET kc == req.topics[i].knowledge_check IN
            /\ out[i].id = req.topics[i].id
            /\ out[i].value = (kc.present /\ kc.enabled /\ kc.questions >= 1)

C9_Witness ==
    /\ call = "generate_navigation_js" /\ pc = "done" /\ ret = Ok
    /\ Len(req.topics) = 2
    /\ req.topics[1].knowledge_check = [present |-> TRUE, enabled |-> TRUE, questions |-> 1]
    /\ req.topics[2].knowledge_check = [present |-> TRUE, enabled |-> FALSE, questions |-> 1]
    /\ out[1].value /\ ~out[2].value

(***************************************************************************)
(* Claims about the navigation-script rule, checked under SpecRule.        *)
(***************************************************************************)
\* the content-load completion point of the handler: its first initializePageAudio
FirstAudio(body) ==
    IF \E i \in 1..Len(body) : body[i] = "audio"
    THEN CHOOSE i \in 1..Len(body) : body[i] = "audio" /\ \A j \in 1..(i - 1) : body[j] # "audio"
    ELSE 0

\* a call of updateNavigationState() stands before the content-load completion point
CallBeforeLoad(body) ==
    /\ FirstAudio(body) # 0
    /\ \E i \in 1..(FirstAudio(body) - 1) : body[i] = "navCall"

\* the calls that stood before the completion point, moved to right after it
MoveCallAfterLoad(body) ==
    LET a == FirstAudio(body)
    IN  SelectSeq(SubSeq(body, 1, a - 1), LAMBDA l : l # "navCall")
        \o <<"audio", "navCall">>
        \o SubSeq(body, a + 1, Len(body))

\* C10: the navigation-script rule fails every script in which
\* updateNavigationState() is called before the content-load completion point of
\* the page-transition handler, and passes the same script once that call is
\* moved to after that point within the allowed distance.
C10_OrderingRule ==
    (call = "navigation_rule" /\ pc = "done"
        /\ req.defs # "none" /\ req.extras /\ CallBeforeLoad(req.body)) =>
        /\ ret.kind = "err"
        /\ NavigationRule(Script(MoveCallAfterLoad(req.body), req.defs, req.extras)) = Ok

(***************************************************************************)
(* Claims about validate_scorm_package, checked under SpecVal.             *)
(***************************************************************************)
\* an entry of the archive that cannot be opened or read as text
FailingEntries ==
    {i \in 1..Len(req.zip_data.entries) : req.zip_data.entries[i].state # "ok"}

ReportedFiles == {report.errors[i].file : i \in 1..Len(report.errors)}

\* C5: validate_scorm_package never fails or panics, whatever the bytes: it
\* returns a ValidationReport, and bytes that are no ZIP archive, an entry that
\* cannot be opened or read and non-UTF-8 content are each an error of the report.
C5_ValidatorAlwaysReports ==
    (call = "validate_scorm_package" /\ pc = "done") =>
        /\ ret = Ok
        /\ ~req.zip_data.isZip => HasErrors(report)
        /\ \A i \in FailingEntries : req.zip_data.entries[i].path \in ReportedFiles

(***************************************************************************)
(* Claims about generation, checked under SpecGen.                         *)
(***************************************************************************)
\* the validator has gone through the whole buffer
ValidationComplete == out = [visited |-> RulePaths, i |-> Len(zip)]

\* C1: in a generation call whose validation report has at least one error the
\* call returns an error and the archive bytes are neither returned nor
\* persisted; bytes are returned only after a complete validation whose report
\* has no errors.
C1_InvalidArchiveNeverReturned ==
    call = "generate_scorm_enhanced" =>
        /\ disk = NoDisk
        /\ HasErrors(report) => ret.kind # "ok"
        /\ (HasErrors(report) /\ pc = "done") => ret.kind = "err"
        /\ ret.kind = "ok" =>
              /\ pc = "done"
              /\ ValidationComplete
              /\ ~HasErrors(report)
              /\ ret.bytes = zip

C1_Witness ==
    /\ call = "generate_scorm_enhanced"
    /\ pc = "done"
    /\ ValidationComplete
    /\ HasErrors(report)
    /\ zip # <<>>
    /\ ret = Err(ValidationFailure(report))

(***************************************************************************)
(* Claims about the style sheet checks, checked under SpecCss.             *)
(***************************************************************************)
SheetHas(l) == \E i \in 1..Len(req.sheet) : req.sheet[i] = l

\* the messages of the two checks that name the min-height rule
BannedRuleMessages ==
    { "Found problematic min-height that pushes footer off screen",
      "Found problematic min-height: 800px !important that pushes footer off screen" }

\* the sheet has what the check under call requires besides the absence of the
\* banned rule
SatisfiesOtherCssRules ==
    IF call = "css_rule"
    THEN SheetHas("cssBody") /\ SheetHas("cssFooter") /\ SheetHas("cssNavDisabled")
    ELSE /\ SheetHas("cssBody") /\ SheetHas("cssMain") /\ SheetHas("cssFooter")
         /\ SheetHas("cssNavButton") \/ SheetHas("cssNavDisabled")
         /\ SheetHas("cssNavDisabled") \/ SheetHas("cssDisabled")
         /\ SheetHas("cssKc") /\ SheetHas("cssFill")

\* C11: a style sheet that holds the banned "min-height: 800px !important" rule
\* fails the check with a message that names the rule, and a style sheet without
\* it that satisfies the other rules of the check passes.
C11_BannedMinHeightRejected ==
    (call \in {"css_rule", "validate_css"} /\ pc = "done") =>
        /\ SheetHas("cssBanned") =>
              /\ ret.kind = "err"
              /\ call = "css_rule" => ret.msg \in BannedRuleMessages
              /\ call = "validate_css" => \E i \in 1..Len(out) : out[i] \in BannedRuleMessages
        /\ (~SheetHas("cssBanned") /\ SatisfiesOtherCssRules) => ret = Ok

C11_Witness ==
    /\ call = "css_rule" /\ pc = "done"
    /\ SheetHas("cssBanned") /\ ~SheetHas("cssBody")
    /\ ret = Err("Found problematic min-height that pushes footer off screen")

\* what a style sheet must define
LacksRequiredStyle ==
    \/ ~SheetHas("cssBody")
    \/ ~SheetHas("cssMain")
    \/ ~SheetHas("cssFooter")
    \/ ~(SheetHas("cssNavButton") \/ SheetHas("cssNavDisabled"))
    \/ ~(SheetHas("cssNavDisabled") \/ SheetHas("cssDisabled"))
    \/ ~SheetHas("cssKc")
    \/ ~SheetHas("cssFill")

\* C12: the rule of styles/main.css of the Output Validator rejects every style
\* sheet that lacks the body height, the flex layout of the main area, or a
\* footer, nav-button, disabled-state, knowledge-check or fill-in-blank rule.
C12_MissingStyleReported ==
    (call = "css_rule" /\ pc = "done" /\ LacksRequiredStyle) => ret.kind = "err"

(***************************************************************************)
(* Claims about the validation report, checked under SpecVal.              *)
(***************************************************************************)
ValidatedEntries == req.zip_data.entries

\* a file the rules are about is not in the archive or cannot be opened
RequiredFileMissing ==
    \E path \in RulePaths :
        \/ ByName(ValidatedEntries, path) = 0
        \/ ValidatedEntries[ByName(ValidatedEntries, path)].state = "unopenable"

\* the rule of a file rejected its content
FileRuleRejected ==
    \E path \in RulePaths :
        /\ ByName(ValidatedEntries, path) # 0
        /\ ValidatedEntries[ByName(ValidatedEntries, path)].state = "ok"
        /\ ApplyRule(path, ValidatedEntries[ByName(ValidatedEntries, path)].text) # Ok

\* a topic page has a knowledge check whose fill-in-blank input lacks its class
\* or whose submit button lacks its handler
TopicPageCheckFailed ==
    \E i \in 1..Len(ValidatedEntries) :
        LET f == ValidatedEntries[i] IN
        /\ StartsWith(f.path, <<"p","a","g","e","s","/","t","o","p","i","c","-">>)
        /\ EndsWith(f.path, <<".","h","t","m","l">>)
        /\ f.state = "ok"
        /\ ScriptContains(f.text, "M_kc")
        /\ ScriptContains(f.text, "M_fillId")
        /\ ~ScriptContains(f.text, "M_fillClass") \/ ~ScriptContains(f.text, "M_submitAll")

\* C13: for the report validate_scorm_package returns, has_errors() is true
\* exactly when a rule failed: a per-file rule rejected its file, a required
\* file is missing, or a topic-page cross-check failed.
C13_HasErrorsIffRuleFailed ==
    (call = "validate_scorm_package" /\ pc = "done" /\ ret = Ok) =>
        (HasErrors(report) <=>
            (RequiredFileMissing \/ FileRuleRejected \/ TopicPageCheckFailed))

C13_Witness ==
    /\ call = "validate_scorm_package" /\ pc = "done" /\ ret = Ok
    /\ ~RequiredFileMissing /\ ~FileRuleRejected /\ TopicPageCheckFailed
    /\ HasErrors(report)
    /\ report.success # <<>>

(***************************************************************************)
(* Claims about the outcome of generation, checked under SpecGen.          *)
(***************************************************************************)
\* the text of the entry of that path in the buffer
BufferText(path) == zip[ByName(zip, path)].text

Missing(path, marker, message) ==
    IF ByName(zip, path) # 0 /\ ~ScriptContains(BufferText(path), marker)
    THEN {[file |-> path, message |-> message]} ELSE {}

\* every requirement of index.html and of styles/main.css that the generated
\* file does not meet, as the diagnostic of that requirement
FailedRequirements ==
    Missing(IndexName, "M_prev", "Previous button not found")
    \cup Missing(IndexName, "M_next", "Next button not found")
    \cup Missing(IndexName, "M_content", "Content container not found")
    \cup Missing(IndexName, "M_alert", "Alert container not found")
    \cup Missing(CssName, "M_footer", "Footer styles missing")
    \cup Missing(CssName, "M_navDisabled", "Disabled navigation button styles missing")

ValidationFailed ==
    /\ call = "generate_scorm_enhanced"
    /\ pc = "done"
    /\ ret.kind = "err"
    /\ ValidationComplete
    /\ HasErrors(report)

\* C14: when post-build validation fails, the returned error message holds a
\* diagnostic for every requirement that failed in every checked file, not only
\* the first one found in a file.
C14_AllDiagnosticsReturned ==
    ValidationFailed =>
        \A d \in FailedRequirements :
            \E i \in 1..Len(ret.msg.summary.errors) : ret.msg.summary.errors[i] = d

\* the validator is at work on the buffer of the generator
Validating ==
    /\ call = "generate_scorm_enhanced"
    /\ pc \in {"open", "rules", "pages", "validated"}

\* C15: in a generation call validation begins only after the archive is
\* finished, it reads the finished buffer, and no entry is written once
\* validation has begun.
C15_ValidationAfterFinish ==
    /\ [](Validating => (buffer = "finished" /\ ZipData.entries = zip))
    /\ [][(call = "generate_scorm_enhanced" /\ (Validating \/ buffer = "finished"))
            => zip' = zip]_vars

C15_Witness ==
    /\ Validating
    /\ pc = "pages"
    /\ buffer = "finished"
    /\ Len(zip) > 4

(***************************************************************************)
(* Claims about the manifest inside the generated archive.                 *)
(***************************************************************************)
\* the decimal digits of n, as format! writes a u32
RECURSIVE Decimal(_)
Decimal(n) ==
    IF n < 10 THEN <<CHOOSE d \in {"0","1","2","3","4","5","6","7","8","9"} :
                       d = ToString(n)>>
    ELSE Decimal(n \div 10) \o Decimal(n % 10)

\* element names that carry a mastery score in SCORM 1.2 and 2004
MasteryScoreNames ==
    {"adlcp:masteryscore", "masteryscore", "imsss:minNormalizedMeasure"}

HoldsMasteryScore(evs, p) ==
    \E j \in 1..(Len(evs) - 1) :
        /\ evs[j].ev = "Start"
        /\ evs[j].name \in MasteryScoreNames
        /\ evs[j + 1].ev = "Text"
        /\ evs[j + 1].text = Decimal(p)

\* C16: the imsmanifest.xml inside the generated archive holds a mastery-score
\* element whose value is the pass mark of the request.
C16_ManifestHoldsPassMark ==
    (call = "generate_scorm_enhanced" /\ pc = "done" /\ ret.kind = "ok") =>
        \E i \in 1..Len(ret.bytes) :
            /\ ret.bytes[i].path = ManifestName
            /\ HoldsMasteryScore(ret.bytes[i].text, req.request.pass_mark)

\* the same claim for generate_simple_manifest called on its own
C16_SimpleManifestHoldsPassMark ==
    (call = "generate_simple_manifest" /\ ManifestReturned) =>
        HoldsMasteryScore(out, req.pass_mark)

(***************************************************************************)
(* Claims about the smallest course, checked under SpecGen.                *)
(***************************************************************************)
\* a request with no topics and no welcome, objectives or assessment page,
\* generated with no media files
EmptyCourse ==
    /\ call = "generate_scorm_enhanced"
    /\ req.valid
    /\ req.request.topics = <<>>
    /\ ~req.request.welcome_page
    /\ ~req.request.learning_objectives_page
    /\ ~req.request.assessment
    /\ req.media_files = [given |-> TRUE, files |-> <<>>]
    /\ req.templates = GoodTemplates

\* failures of the template engine and of the ZIP writer
EngineFailures ==
    {"Failed to register template", "Failed to render index template",
     "Failed to finish ZIP"}

FourFiles == {ManifestName, IndexName, CssName, NavName}

TextArtifacts(entries) == SelectSeq(entries, LAMBDA e : e.kind # "media")

\* a manifest with the value of its identifier field left out
WithoutIdentifier(evs) ==
    [j \in 1..Len(evs) |->
        IF evs[j].ev = "Start" /\ evs[j].name = "manifest"
        THEN [evs[j] EXCEPT !.attrs =
                 [k \in 1..Len(evs[j].attrs) |->
                     IF evs[j].attrs[k].key = "identifier"
                     THEN [evs[j].attrs[k] EXCEPT !.value = <<>>]
                     ELSE evs[j].attrs[k]]]
        ELSE evs[j]]

SameArtifact(a, b) ==
    /\ a.path = b.path
    /\ IF a.kind = "manifest"
       THEN b.kind = "manifest" /\ WithoutIdentifier(a.text) = WithoutIdentifier(b.text)
       ELSE a.text = b.text

EmittingSteps == {"parse", "media", "new", "validated"}

NextPcs ==
    {"media", "new", "navigation", "css", "index", "fixed", "topics", "mediafiles",
     "open", "rules", "pages", "validated", "done"}

\* a step of the command that ends at p with a result of kind k and message m
\* after an event whose outcome was o
StepTo(o, p, k, m) ==
    GenNext /\ listener' = o /\ pc' = p /\ ret'.kind = k /\ ret'.msg = m

\* what the command does next does not depend on what became of the event
SameStepForEveryOutcome ==
    pc \in EmittingSteps =>
        \A p \in {"media", "new", "navigation", "done"} :
          \A r \in {NoRet, Ok, Err("Failed to parse course data"),
                    Err("Failed to read media directory"),
                    Err("Failed to register template")} :
            \/ \A o \in Outcomes : ENABLED StepTo(o, p, r.kind, r.msg)
            \/ \A o \in Outcomes : ~ENABLED StepTo(o, p, r.kind, r.msg)

\* the results the pipeline itself gives
PipelineResult ==
    \/ ret.kind = "ok" /\ ret.bytes = zip /\ ~HasErrors(report)
    \/ ret.kind = "err" /\ ret.msg # "Failed to emit progress"

\* C19: whatever becomes of each progress event (delivered, dropped, failed to
\* send) the command runs to its end, its next step and its result are the
\* same for every outcome, and no result comes from a progress event.
C19_ProgressIsAdvisory ==
    /\ <>(pc = "done")
    /\ [](pc = "done" => PipelineResult)
    /\ []SameStepForEveryOutcome

C19_Witness ==
    /\ pc = "done"
    /\ ret.kind = "ok"
    /\ listener = "failed"
    /\ Len(events) > 4

(***************************************************************************)
(* Claims about the options of the entries, checked under SpecGen and      *)
(* SpecPkg.                                                                *)
(***************************************************************************)
\* the options the assembler gives: deflate and the permission bits 0o755
WrittenAsFixed(e) ==
    /\ e.method = "Deflated"
    /\ e.perm = PackageOptions.perm

\* C20: every entry of every archive the assembler produces is written with
\* deflate compression and with the same fixed Unix permission bits.
C20_UniformOptions ==
    \A i \in 1..Len(zip) : WrittenAsFixed(zip[i])

\* within the archive of generate_scorm_package the entries do have the same
\* options as each other
C20_SameWithinArchive ==
    \A i, j \in 1..Len(zip) :
        zip[i].method = zip[j].method /\ zip[i].perm = zip[j].perm

(***************************************************************************)
(* Claims about the project file, checked under SpecStore.                 *)
(***************************************************************************)
\* the save of c has created its temporary file and has not yet renamed it
Writing(c) ==
    /\ req[c] \in {"save", "save_async"}
    /\ pc[c] \in {"write", "sync", "rename"}

\* C21: at any time at most one save of the project file path is between
\* starting to write its temporary file and completing the rename.
C21_OneWriterPerPath ==
    \A c, d \in Callers : (Writing(c) /\ Writing(d)) => c = d

\* the saves of project_storage.rs do exclude each other
C21_LockedSavesExclusive ==
    \A c, d \in Callers :
        (Writing(c) /\ Writing(d) /\ req[c] = "save" /\ req[d] = "save") => c = d

\* the content of the project file, when there is one
ProjectContent == disk.data[disk.names["project"]]

\* C22: at every point during and after any sequence of saves, failed ones
\* included, the project file does not exist or holds the complete content of
\* one single save, and no load returns anything else.
C22_ProjectFileComplete ==
    /\ disk.names["project"] # NoFile => Complete(ProjectContent)
    /\ \A c \in Callers :
         (req[c] = "load" /\ ret[c].kind = "ok") => Complete(ret[c].project)

\* with the saves of project_storage.rs alone the file is always complete
C22_LockedSavesComplete ==
    (\A c \in Callers : req[c] # "save_async") => C22_ProjectFileComplete

(***************************************************************************)
(* Claims about the media items of a page, checked under SpecMedia.        *)
(***************************************************************************)
\* C23: the external-video value of a media item in the page view model is true
\* exactly when the item's explicit flag is set or its url or embed-url holds
\* youtube.com or youtu.be.
C23_ExternalVideoFlag ==
    pc = "done" =>
        (out[1].is_youtube <=>
            \/ req.is_youtube = "Some(true)"
            \/ HasHostMarker(req.url)
            \/ (req.embed_url.some /\ HasHostMarker(req.embed_url.value)))

(***************************************************************************)
(* Claims about the lock of the path, checked under SpecLock.              *)
(***************************************************************************)
\* C24: the lock of the path is released on every exit of save_project_file
\* (success, error return, panic), so every save that waits for the lock,
\* after a failed or panicked save as well, acquires it and completes.
C24_LockAlwaysReleased ==
    /\ [](\A c \in Callers : pc[c] = "done" => out.lock.holder # c)
    /\ [](out.lock.holder # NoFile => pc[out.lock.holder] # "done")
    /\ \A c \in Callers : (pc[c] = "lock") ~> (pc[c] = "done")

\* a save holds the lock that a panicked save poisoned, after a save failed
C24_Witness ==
    \E c, d, e \in Callers :
        /\ ret[c] = Panicked
        /\ ret[d].kind = "err"
        /\ out.lock.poisoned
        /\ out.lock.holder = e
        /\ pc[e] = "rename"

(***************************************************************************)
(* Claims about deleting the project file, checked under SpecStore.        *)
(***************************************************************************)
\* C30: when delete_project_file has returned Ok and no save of the path was
\* started after that, the project file does not exist once every call has
\* finished: a save that began before the delete does not bring it back.
C30_DeleteIsFinal ==
    ( /\ \A c \in Callers : req[c] # "save_async" /\ pc[c] = "done"
      /\ out.deleted
      /\ ~out.late )
    => disk.names["project"] = NoFile

(***************************************************************************)
(* Claims about the media store, checked under SpecMediaStore.             *)
(***************************************************************************)
NoYoutubeFields(metadata) ==
    /\ metadata.source # "youtube"
    /\ metadata.embed_url = "None"
    /\ metadata.clip_start = "None"
    /\ metadata.clip_end = "None"

\* C25: after any sequence of media store operations, stored metadata whose
\* media type is neither video nor youtube carries no YouTube fields.
C25_NoYoutubeFieldsOnOtherMedia ==
    (disk.json.state = "ok" /\ disk.json.metadata.media_type \notin {"video", "youtube"})
        => NoYoutubeFields(disk.json.metadata)

\* store_media and store_media_base64 do clean what they store
C25_StoreMediaCleans ==
    (/\ disk.json.state = "ok"
     /\ ~out.unsanitized
     /\ disk.json.metadata.media_type \notin {"video", "youtube"})
        => NoYoutubeFields(disk.json.metadata)

\* C29: after any sequence of successful store_media_base64 calls for the media
\* id, get_media returns exactly the bytes that the most recent call supplied.
C29_GetReturnsLastStored ==
    (out.op = "get_media" /\ out.only_base64 /\ out.supplied # <<>>) =>
        /\ ret.kind = "ok"
        /\ ret.data = out.supplied

(***************************************************************************)
(* Claims about the progress events of generate_scorm_enhanced, checked    *)
(* under SpecGen.                                                          *)
(***************************************************************************)
Emitted(p) == {i \in 1..Len(events) : events[i] = p}

\* C26: in any run of generate_scorm_enhanced the 100% progress event is
\* emitted only when package generation and validation succeeded, and it is the
\* last progress event of the run; a run that returns an error never emits it.
C26_CompleteOnlyOnSuccess ==
    /\ Emitted(100) # {} =>
          /\ Emitted(100) = {Len(events)}
          /\ pc = "done"
          /\ ret.kind = "ok"
          /\ buffer = "finished"
          /\ ~HasErrors(report)
    /\ (pc = "done" /\ ret.kind = "err") => Emitted(100) = {}

C26_Witness ==
    /\ pc = "done"
    /\ ret.kind = "ok"
    /\ Emitted(100) = {Len(events)}
    /\ Emitted(95) = {Len(events) - 1}

(***************************************************************************)
(* Claims about the entry paths of the generated archive, checked under    *)
(* SpecPaths.                                                              *)
(***************************************************************************)
DistinctPaths(z) == \A i, j \in 1..Len(z) : i # j => z[i].path # z[j].path

\* C27: every archive returned by generate_scorm_package has pairwise distinct
\* entry paths: no two writes target the same archive path.
C27_DistinctEntryPaths ==
    (pc = "done" /\ ret.kind = "ok") => DistinctPaths(ret.bytes)

(***************************************************************************)
(* Claims about the import of a project archive, checked under SpecExtract.*)
(***************************************************************************)
\* C28: for any imported ZIP, extract_project_zip creates or overwrites files
\* only inside its temporary extraction directory and the new project's own
\* locations: an entry whose name is absolute or contains a parent-directory
\* component is never written outside the extraction directory.
C28_WritesStayInside ==
    \A place \in disk :
        \/ Below(ExtractionDir(platform), place)
        \/ Below(ProjectsDir(platform), place)

====
